---- MODULE Spec2Model ----
(***************************************************************************)
(* A model of the RUDP protocol engine of rudp.c: sockets, per-peer        *)
(* sessions with a sender half and a receiver half, the sliding window,    *)
(* the retransmission timers and the packet dispatcher, run by several     *)
(* processes (one socket each) that exchange datagrams over an unreliable  *)
(* network.                                                                *)
(*                                                                         *)
(* Every handler of the source is one operator that transforms a context   *)
(* record c:                                                               *)
(*   c.ss    the socket's session list (sessions_list_head ... next)       *)
(*   c.tm    the pending timers of the process (the reactor's timer list)  *)
(*   c.out   what the handler has emitted so far, in order: datagrams,     *)
(*           event-handler calls and data-handler calls                    *)
(*   c.crash the handler dereferenced a NULL pointer: the process is dead  *)
(*   c.ub    -1, or the length of c.out when the handler first executed    *)
(*           undefined behaviour (use after free, double free): the build  *)
(*           either goes on as if the memory were intact or aborts there   *)
(*   c.rel   the socket released its descriptor and freed itself           *)
(*   c.ret   the value the call returns                                    *)
(***************************************************************************)
EXTENDS Integers, Sequences, FiniteSets, TLC

\* ---------------------------------------------------------------- constants
RUDP_VERSION == 1
RUDP_MAXPKTSIZE == 1000
RUDP_MAXRETRANS == 5
RUDP_WINDOW == 3
RUDP_DATA == 1
RUDP_ACK == 2
RUDP_SYN == 4
RUDP_FIN == 5
DROP == 0
SYN_SENT == 0
OPENING == 1
OPEN == 2
FIN_SENT == 3
\* a u_int32_t is kept as two 16-bit halves <<high, low>>; (short) keeps the low
\* half, signed
U16 == 65536

\* ---------------------------------------------------------------- bounds
\* Spec: one sender process and one receiver process.
\* datagrams the application submits, and timer expiries, in a run
MaxSends == 4
MaxFires == 2
\* SpecMulti: a socket with two peers, and a peer that sends back.
MultiSends == 2
\* SpecLossy: a network that loses datagrams and a timer that expires only
\* once the round trip it waits for is over.
LossySends == 2
LossyDrops == 1
LossyFires == 2
\* SpecClosing: a closing socket with two peers, and timers that expire.
ClosingSends == 3
ClosingFires == 1
\* SpecApi: an application that also calls rudp_sendto with a bad length or
\* with a handle that is not in the socket list.
ApiSends == 2
ApiBadCalls == 2
\* SpecResend: two datagrams in the window and timers that expire again and
\* again.
ResendSends == 2
ResendFires == 6
\* SpecIo: one failing sendto(2), in the first or second send of a handler.
IoSends == 2
IoFires == 2
IoFails == 1
IoCalls == 2
\* SpecWire: datagrams that no sender half of the run transmitted, with sequence
\* numbers at most StrayDist away from the ones the session holds
WireSends == 2
WireStrays == 1
StrayDist == 1
\* SpecSeq: DATA probes around the expected sequence number and 2^15 and 2^16
\* away from it, for initial sequence numbers next to the wrap-arounds
SeqSends == 1
SeqProbes == 2
SeqIsns == {<<0, 0>>, <<0, 65534>>, <<32767, 65534>>, <<0, 32766>>}
\* SpecChannel: a channel that loses and duplicates datagrams, with timers.
ChannelSends == 2
ChannelFires == 1
ChannelDrops == 1
ChannelDups == 1
\* SpecRetry: one datagram and timers that expire again and again.
RetrySends == 1
RetryFires == 6

\* The processes (one socket each); a peer address is the process number.
Hosts == {1, 2, 3}
\* the lengths rudp_sendto is called with
Lens == {-1, RUDP_MAXPKTSIZE, RUDP_MAXPKTSIZE + 1}

NULL == [null |-> TRUE]

\* ---------------------------------------------------------------- sequence arithmetic
U32(hi, lo) == <<hi, lo>>
\* a + n and a - n for a u_int32_t a and a small constant n, modulo 2^32
Add32(a, n) == <<(a[1] + ((a[2] + n) \div U16)) % U16, (a[2] + n) % U16>>
Sub32(a, n) == <<(a[1] + U16 - (IF a[2] < n THEN 1 ELSE 0)) % U16, (a[2] + U16 - n) % U16>>
\* a - b for two u_int32_t, modulo 2^32
Diff32(a, b) ==
  <<(a[1] + U16 - b[1] - (IF a[2] < b[2] THEN 1 ELSE 0)) % U16, (a[2] + U16 - b[2]) % U16>>
\* (short) x for a u_int32_t x
ToShort(x) == IF x[2] >= 32768 THEN x[2] - U16 ELSE x[2]
SEQ_LT(a, b) == ToShort(Diff32(a, b)) < 0
SEQ_LEQ(a, b) == ToShort(Diff32(a, b)) <= 0
SEQ_GT(a, b) == ToShort(Diff32(a, b)) > 0
SEQ_GEQ(a, b) == ToShort(Diff32(a, b)) >= 0

\* ---------------------------------------------------------------- records
create_rudp_packet(type, seqno, len, payload) ==
  [version |-> RUDP_VERSION, type |-> type, seqno |-> seqno,
   payload_length |-> len, payload |-> payload]

compare_sockaddr(s1, s2) == IF s1 = s2 THEN 1 ELSE 0

EmptyWindow == [i \in 1..RUDP_WINDOW |-> NULL]
ZeroAttempts == [i \in 1..RUDP_WINDOW |-> 0]

\* one emission of a handler
OutPkt(to, p) == [kind |-> "pkt", ev |-> "", to |-> to, pkt |-> p]
OutEvent(ev, peer) == [kind |-> "event", ev |-> ev, to |-> peer, pkt |-> NULL]
OutRecv(peer, p) == [kind |-> "recv", ev |-> "", to |-> peer, pkt |-> p]

\* what send_packet writes to stderr when sendto(2) fails
OutLog(peer, p) == [kind |-> "log", ev |-> "sendto failed", to |-> peer, pkt |-> p]

\* io: which sendto(2) call of the handler fails, counted from 1; 0 when none does
IoCtx(ss, tm, n) ==
  [ss |-> ss, tm |-> tm, out |-> <<>>, crash |-> FALSE, ub |-> -1, rel |-> FALSE, ret |-> 0,
   io |-> n]

Ctx(ss, tm) == IoCtx(ss, tm, 0)

\* the handler dereferences NULL here
Crash(c) == [c EXCEPT !.crash = TRUE]
\* the handler executes undefined behaviour here
Undefined(c) == IF c.ub = -1 THEN [c EXCEPT !.ub = Len(c.out)] ELSE c

\* index of the first session whose address compares equal, 0 when none
RECURSIVE FindFrom(_, _, _)
FindFrom(ss, addr, i) ==
  IF i > Len(ss) THEN 0
  ELSE IF compare_sockaddr(ss[i].address, addr) = 1 THEN i
  ELSE FindFrom(ss, addr, i + 1)
FindSession(ss, addr) == FindFrom(ss, addr, 1)

\* walking the list reads session structs: freed ones are read after free
AnyFreed(ss) == \E i \in 1..Len(ss) : ss[i].freed
WalkList(c) == IF AnyFreed(c.ss) THEN Undefined(c) ELSE c

\* the last window slot holding a packet with this seqno, 0 when none
SlotOf(window, seqno) ==
  LET hits == {i \in 1..RUDP_WINDOW : window[i] # NULL /\ window[i].seqno = seqno}
  IN IF hits = {} THEN 0 ELSE CHOOSE i \in hits : \A j \in hits : j <= i

\* a slot search that returns the last unused slot
M_LastUnused(window) ==
  LET free == {i \in 1..RUDP_WINDOW : window[i] = NULL}
  IN IF free = {} THEN 0 ELSE CHOOSE i \in free : \A j \in free : j <= i

\* the first unused window slot (the loop runs from the last slot down)
FirstUnused(window) ==
  LET free == {i \in 1..RUDP_WINDOW : window[i] = NULL}
  IN IF free = {} THEN 0 ELSE CHOOSE i \in free : \A j \in free : i <= j

\* ---------------------------------------------------------------- session creation
NewSender(seqno, data_queue) ==
  [status |-> SYN_SENT, seqno |-> seqno, sliding_window |-> EmptyWindow,
   retransmission_attempts |-> ZeroAttempts, data_queue |-> data_queue,
   session_finished |-> FALSE, syn_timeout_arg |-> NULL, fin_timeout_arg |-> NULL,
   data_timeout_arg |-> EmptyWindow, syn_retransmit_attempts |-> 0,
   fin_retransmit_attempts |-> 0]

NewReceiver(seqno) ==
  [status |-> OPENING, expected_seqno |-> seqno, session_finished |-> FALSE]

create_sender_session(c, seqno, to, data_queue) ==
  LET new_session == [address |-> to, sender |-> NewSender(seqno, data_queue),
                      receiver |-> NULL, freed |-> FALSE]
  IN [WalkList(c) EXCEPT !.ss = Append(c.ss, new_session)]

create_receiver_session(c, seqno, addr) ==
  LET new_session == [address |-> addr, sender |-> NULL,
                      receiver |-> NewReceiver(seqno), freed |-> FALSE]
  IN [WalkList(c) EXCEPT !.ss = Append(c.ss, new_session)]

\* ---------------------------------------------------------------- send_packet
\* the timer bookkeeping of send_packet for a packet that is not an ACK
SetTimeoutArg(c, p, recipient) ==
  LET timeargs == [packet |-> p, recipient |-> recipient]
      c1 == WalkList(c)
      k == FindSession(c1.ss, recipient)
      armed == [c1 EXCEPT !.tm = @ \cup {timeargs}]
  IN IF k = 0 THEN armed
     ELSE IF c1.ss[k].sender = NULL THEN Crash(c1)
     ELSE IF p.type = RUDP_SYN
       THEN [armed EXCEPT !.ss[k].sender.syn_timeout_arg = timeargs]
     ELSE IF p.type = RUDP_FIN
       THEN [armed EXCEPT !.ss[k].sender.fin_timeout_arg = timeargs]
     ELSE IF p.type = RUDP_DATA
       THEN LET index == SlotOf(c1.ss[k].sender.sliding_window, p.seqno)
            IN IF index = 0 THEN Undefined(armed)
               ELSE [armed EXCEPT !.ss[k].sender.data_timeout_arg[index] = timeargs]
     ELSE armed

send_packet(c, is_ack, p, recipient) ==
  IF c.crash THEN c
  ELSE IF c.io = 1 THEN [c EXCEPT !.out = Append(@, OutLog(recipient, p)), !.io = 0]
  ELSE LET sent == [c EXCEPT !.out = Append(@, OutPkt(recipient, p)),
                             !.io = IF @ > 1 THEN @ - 1 ELSE 0]
       IN IF is_ack THEN sent ELSE SetTimeoutArg(sent, p, recipient)

\* ---------------------------------------------------------------- rudp_sendto
\* the socket list of a process holds its one socket; a handle that is not in
\* the list leaves curr_socket NULL after the search loop
FindSocket(socket_list, rsocket) ==
  IF \E i \in 1..Len(socket_list) : socket_list[i] = rsocket THEN rsocket ELSE 0

\* a rudp_sendto that transmits on an open session even when the window is full,
\* over the last slot
M_SendOverFullWindow(c, k, data, len, to) ==
  LET snd == c.ss[k].sender
      data_item == [item |-> data, len |-> len]
      free == FirstUnused(snd.sliding_window)
      i == IF free = 0 THEN RUDP_WINDOW ELSE free
  IN IF snd.status = OPEN
     THEN LET seqno == Add32(snd.seqno, 1)
              datap == create_rudp_packet(RUDP_DATA, seqno, len, data)
              c1 == [c EXCEPT !.ss[k].sender.seqno = seqno,
                              !.ss[k].sender.sliding_window[i] = datap,
                              !.ss[k].sender.retransmission_attempts[i] = 0]
          IN send_packet(c1, FALSE, datap, to)
     ELSE [c EXCEPT !.ss[k].sender.data_queue = Append(@, data_item)]

\* the branch of rudp_sendto for a session that has a sender half
SendOrQueue(c, k, data, len, to) ==
  LET snd == c.ss[k].sender
      data_item == [item |-> data, len |-> len]
      data_is_queued == snd.data_queue # <<>>
      i == FirstUnused(snd.sliding_window)
  IN IF snd.status = OPEN /\ ~data_is_queued /\ i # 0
     THEN LET seqno == Add32(snd.seqno, 1)
              datap == create_rudp_packet(RUDP_DATA, seqno, len, data)
              c1 == [c EXCEPT !.ss[k].sender.seqno = seqno,
                              !.ss[k].sender.sliding_window[i] = datap,
                              !.ss[k].sender.retransmission_attempts[i] = 0]
          IN send_packet(c1, FALSE, datap, to)
     ELSE [c EXCEPT !.ss[k].sender.data_queue = Append(@, data_item)]

\* a new sender session, then the SYN
OpenSender(c, data, len, to, seqno) ==
  LET data_item == [item |-> data, len |-> len]
      p == create_rudp_packet(RUDP_SYN, seqno, 0, 0)
  IN send_packet(create_sender_session(c, seqno, to, <<data_item>>), FALSE, p, to)

\* a rudp_sendto that does not look at the length
M_SendtoAnyLength(c, socket_list, rsocket, data, len, to, seqno) ==
  IF socket_list = <<>> THEN [c EXCEPT !.ret = -1]
  ELSE IF FindSocket(socket_list, rsocket) = 0 THEN Crash(c)
  ELSE IF c.ss = <<>> THEN OpenSender(c, data, len, to, seqno)
  ELSE LET c1 == WalkList(c)
           k == FindSession(c1.ss, to)
       IN IF k = 0 THEN OpenSender(c1, data, len, to, seqno)
          ELSE IF c1.ss[k].sender = NULL THEN OpenSender(c1, data, len, to, seqno)
          ELSE SendOrQueue(c1, k, data, len, to)

rudp_sendto(c, socket_list, rsocket, data, len, to, seqno) ==
  IF len < 0 \/ len > RUDP_MAXPKTSIZE THEN [c EXCEPT !.ret = -1]
  ELSE IF socket_list = <<>> THEN [c EXCEPT !.ret = -1]
  ELSE IF FindSocket(socket_list, rsocket) = 0 THEN Crash(c)
  ELSE IF c.ss = <<>> THEN OpenSender(c, data, len, to, seqno)
  ELSE LET c1 == WalkList(c)
           k == FindSession(c1.ss, to)
       IN IF k = 0 THEN OpenSender(c1, data, len, to, seqno)
          ELSE IF c1.ss[k].sender = NULL THEN OpenSender(c1, data, len, to, seqno)
          ELSE SendOrQueue(c1, k, data, len, to)

\* ---------------------------------------------------------------- receive_callback
\* the three frees without the event_timeout_delete: the timer stays pending
M_FreeWithoutCancel(c, arg) ==
  IF arg = NULL THEN Crash(c) ELSE c

\* event_timeout_delete, then the three frees of the timer's argument
CancelAndFree(c, arg) ==
  IF arg = NULL THEN Crash(c)
  ELSE IF arg \in c.tm THEN [c EXCEPT !.tm = @ \ {arg}]
  ELSE Undefined(c)

\* a refill after the handshake that sends one datagram and stops
M_DrainAfterSynOnce(c, k, syn_sqn, to) ==
  IF c.crash THEN c
  ELSE
  LET snd == c.ss[k].sender
  IN IF snd.data_queue = <<>> \/ snd.sliding_window[RUDP_WINDOW] # NULL THEN c
     ELSE LET index == FirstUnused(snd.sliding_window)
              seqno == Add32(syn_sqn, 1)
              item == Head(snd.data_queue)
              datap == create_rudp_packet(RUDP_DATA, seqno, item.len, item.item)
              c1 == [c EXCEPT !.ss[k].sender.seqno = Add32(@, 1),
                              !.ss[k].sender.sliding_window[index] = datap,
                              !.ss[k].sender.retransmission_attempts[index] = 0,
                              !.ss[k].sender.data_queue = Tail(@)]
          IN send_packet(c1, FALSE, datap, to)

\* a refill after the handshake that numbers the first DATA one too high
RECURSIVE M_DrainAfterSynSkipsOne(_, _, _, _)
M_DrainAfterSynSkipsOne(c, k, syn_sqn, to) ==
  IF c.crash THEN c
  ELSE
  LET snd == c.ss[k].sender
  IN IF snd.data_queue = <<>> \/ snd.sliding_window[RUDP_WINDOW] # NULL THEN c
     ELSE LET index == FirstUnused(snd.sliding_window)
              seqno == Add32(syn_sqn, 2)
              item == Head(snd.data_queue)
              datap == create_rudp_packet(RUDP_DATA, seqno, item.len, item.item)
              c1 == [c EXCEPT !.ss[k].sender.seqno = Add32(@, 1),
                              !.ss[k].sender.sliding_window[index] = datap,
                              !.ss[k].sender.retransmission_attempts[index] = 0,
                              !.ss[k].sender.data_queue = Tail(@)]
          IN M_DrainAfterSynSkipsOne(send_packet(c1, FALSE, datap, to), k, seqno, to)

\* the refill loop of the SYN-ACK branch
RECURSIVE DrainAfterSyn(_, _, _, _)
DrainAfterSyn(c, k, syn_sqn, to) ==
  IF c.crash THEN c
  ELSE
  LET snd == c.ss[k].sender
  IN IF snd.data_queue = <<>> \/ snd.sliding_window[RUDP_WINDOW] # NULL THEN c
     ELSE LET index == FirstUnused(snd.sliding_window)
              seqno == Add32(syn_sqn, 1)
              item == Head(snd.data_queue)
              datap == create_rudp_packet(RUDP_DATA, seqno, item.len, item.item)
              c1 == [c EXCEPT !.ss[k].sender.seqno = Add32(@, 1),
                              !.ss[k].sender.sliding_window[index] = datap,
                              !.ss[k].sender.retransmission_attempts[index] = 0,
                              !.ss[k].sender.data_queue = Tail(@)]
          IN DrainAfterSyn(send_packet(c1, FALSE, datap, to), k, seqno, to)

\* the refill loop of the DATA-ACK branch
RECURSIVE DrainAfterAck(_, _, _)
DrainAfterAck(c, k, to) ==
  IF c.crash THEN c
  ELSE
  LET snd == c.ss[k].sender
  IN IF snd.data_queue = <<>> \/ snd.sliding_window[RUDP_WINDOW] # NULL THEN c
     ELSE LET index == FirstUnused(snd.sliding_window)
              seqno == Add32(snd.seqno, 1)
              item == Head(snd.data_queue)
              datap == create_rudp_packet(RUDP_DATA, seqno, item.len, item.item)
              c1 == [c EXCEPT !.ss[k].sender.seqno = seqno,
                              !.ss[k].sender.sliding_window[index] = datap,
                              !.ss[k].sender.retransmission_attempts[index] = 0,
                              !.ss[k].sender.data_queue = Tail(@)]
          IN DrainAfterAck(send_packet(c1, FALSE, datap, to), k, to)

\* a shift that moves every slot two places: the second item leaves the window
\* with the first
M_ShiftWindowByTwo(snd) ==
  [snd EXCEPT
     !.sliding_window = [i \in 1..RUDP_WINDOW |->
        IF i + 1 < RUDP_WINDOW THEN snd.sliding_window[i + 2] ELSE NULL],
     !.retransmission_attempts = [i \in 1..RUDP_WINDOW |->
        IF i + 1 < RUDP_WINDOW THEN snd.retransmission_attempts[i + 2] ELSE 0],
     !.data_timeout_arg = [i \in 1..RUDP_WINDOW |->
        IF i + 1 < RUDP_WINDOW THEN snd.data_timeout_arg[i + 2] ELSE NULL]]

\* remove the first window item and shift the rest left
ShiftWindow(snd) ==
  [snd EXCEPT
     !.sliding_window = [i \in 1..RUDP_WINDOW |->
        IF i < RUDP_WINDOW THEN snd.sliding_window[i + 1] ELSE NULL],
     !.retransmission_attempts = [i \in 1..RUDP_WINDOW |->
        IF i < RUDP_WINDOW THEN snd.retransmission_attempts[i + 1] ELSE 0],
     !.data_timeout_arg = [i \in 1..RUDP_WINDOW |->
        IF i < RUDP_WINDOW THEN snd.data_timeout_arg[i + 1] ELSE NULL]]

\* a sweep that sends the FIN although the window still holds packets
RECURSIVE M_FinSweepIgnoresWindow(_, _)
M_FinSweepIgnoresWindow(c, j) ==
  IF c.crash \/ j > Len(c.ss) THEN c
  ELSE LET snd == c.ss[j].sender
       IN IF snd = NULL THEN Crash(c)
          ELSE IF snd.session_finished = FALSE /\ snd.data_queue = <<>> /\ snd.status = OPEN
            THEN LET seqno == Add32(snd.seqno, 1)
                     p == create_rudp_packet(RUDP_FIN, seqno, 0, 0)
                     c1 == [c EXCEPT !.ss[j].sender.seqno = seqno]
                     c2 == send_packet(c1, FALSE, p, c.ss[j].address)
                 IN IF c2.crash THEN c2
                    ELSE M_FinSweepIgnoresWindow(
                           [c2 EXCEPT !.ss[j].sender.status = FIN_SENT], j + 1)
          ELSE M_FinSweepIgnoresWindow(c, j + 1)

\* "Can the socket be closed?": a FIN to every session that has nothing left to send
RECURSIVE FinSweep(_, _)
FinSweep(c, j) ==
  IF c.crash \/ j > Len(c.ss) THEN c
  ELSE LET snd == c.ss[j].sender
       IN IF snd = NULL THEN Crash(c)
          ELSE IF snd.session_finished = FALSE /\ snd.data_queue = <<>>
                  /\ snd.sliding_window[1] = NULL /\ snd.status = OPEN
            THEN LET seqno == Add32(snd.seqno, 1)
                     p == create_rudp_packet(RUDP_FIN, seqno, 0, 0)
                     c1 == [c EXCEPT !.ss[j].sender.seqno = seqno]
                     c2 == send_packet(c1, FALSE, p, c.ss[j].address)
                 IN IF c2.crash THEN c2
                    ELSE FinSweep([c2 EXCEPT !.ss[j].sender.status = FIN_SENT], j + 1)
          ELSE FinSweep(c, j + 1)

\* "See if we can close the socket": the walk that computes all_done and frees
\* every session struct it passes; [c, all_done]
RECURSIVE SweepSessions(_, _, _)
SweepSessions(c, j, all_done) ==
  IF c.crash \/ j > Len(c.ss) THEN [c |-> c, all_done |-> all_done]
  ELSE LET s == c.ss[j]
           c1 == IF s.freed THEN Undefined(c) ELSE c
           done == /\ s.sender.session_finished
                   /\ ~(s.receiver # NULL /\ s.receiver.session_finished = FALSE)
       IN IF s.sender = NULL THEN [c |-> Crash(c1), all_done |-> all_done]
          ELSE SweepSessions([c1 EXCEPT !.ss[j].freed = TRUE], j + 1, all_done /\ done)

\* a close that reports CLOSED as soon as one session finished, whatever the
\* others are doing
M_CloseOnFirstDone(c, close_requested, sender) ==
  IF ~close_requested THEN c
  ELSE LET r == SweepSessions(c, 1, TRUE)
       IN IF r.c.crash THEN r.c
          ELSE [r.c EXCEPT !.out = Append(@, OutEvent("CLOSED", sender)), !.rel = TRUE]

\* the close of the socket once every session is done
CloseIfDone(c, close_requested, sender) ==
  IF ~close_requested THEN c
  ELSE LET r == SweepSessions(c, 1, TRUE)
       IN IF r.c.crash \/ ~r.all_done THEN r.c
          ELSE [r.c EXCEPT !.out = Append(@, OutEvent("CLOSED", sender)), !.rel = TRUE]

OnSynAck(c, k, sender, ack_sqn) ==
  LET snd == c.ss[k].sender
      syn_sqn == snd.seqno
  IN IF Sub32(ack_sqn, 1) = syn_sqn
     THEN LET c1 == CancelAndFree(c, snd.syn_timeout_arg)
          IN IF c1.crash THEN c1
             ELSE DrainAfterSyn([c1 EXCEPT !.ss[k].sender.status = OPEN], k, syn_sqn, sender)
     ELSE c

\* a DATA-ACK branch that takes any ACK as the ACK of the head of the window
M_OnDataAckAnySeqno(c, k, close_requested, sender, ack_sqn) ==
  LET snd == c.ss[k].sender
  IN IF snd.sliding_window[1] # NULL
     THEN LET c1 == CancelAndFree(c, snd.data_timeout_arg[1])
              c2 == IF c1.crash THEN c1
                    ELSE DrainAfterAck([c1 EXCEPT !.ss[k].sender = ShiftWindow(snd)], k, sender)
          IN IF close_requested THEN FinSweep(c2, 1) ELSE c2
     ELSE c

OnDataAck(c, k, close_requested, sender, ack_sqn) ==
  LET snd == c.ss[k].sender
  IN IF snd.sliding_window[1] # NULL /\ snd.sliding_window[1].seqno = Sub32(ack_sqn, 1)
     THEN LET c1 == CancelAndFree(c, snd.data_timeout_arg[1])
              c2 == IF c1.crash THEN c1
                    ELSE DrainAfterAck([c1 EXCEPT !.ss[k].sender = ShiftWindow(snd)], k, sender)
          IN IF close_requested THEN FinSweep(c2, 1) ELSE c2
     ELSE c

\* a FIN-ACK branch that leaves the FIN timer pending
M_OnFinAckKeepsTimer(c, k, close_requested, sender, ack_sqn) ==
  LET snd == c.ss[k].sender
  IN IF Add32(snd.seqno, 1) = ack_sqn
     THEN CloseIfDone([c EXCEPT !.ss[k].sender.session_finished = TRUE],
                      close_requested, sender)
     ELSE c

OnFinAck(c, k, close_requested, sender, ack_sqn) ==
  LET snd == c.ss[k].sender
  IN IF Add32(snd.seqno, 1) = ack_sqn
     THEN LET c1 == CancelAndFree(c, snd.fin_timeout_arg)
          IN IF c1.crash THEN c1
             ELSE CloseIfDone([c1 EXCEPT !.ss[k].sender.session_finished = TRUE],
                              close_requested, sender)
     ELSE c

OnAck(c, k, close_requested, sender, p) ==
  LET snd == c.ss[k].sender
  IN IF snd = NULL THEN Crash(c)
     ELSE IF snd.status = SYN_SENT THEN OnSynAck(c, k, sender, p.seqno)
     ELSE IF snd.status = OPEN THEN OnDataAck(c, k, close_requested, sender, p.seqno)
     ELSE IF snd.status = FIN_SENT THEN OnFinAck(c, k, close_requested, sender, p.seqno)
     ELSE c

\* a SYN from a peer that has no session yet
OnFirstSyn(c, sender, p) ==
  LET seqno == Add32(p.seqno, 1)
      ack == create_rudp_packet(RUDP_ACK, seqno, 0, 0)
  IN send_packet(create_receiver_session(c, seqno, sender), TRUE, ack, sender)

\* a SYN branch that answers only the first SYN of a peer
M_OnSynOnce(c, k, sender, p) ==
  LET rcv == c.ss[k].receiver
  IN IF rcv = NULL
     THEN LET c1 == [c EXCEPT !.ss[k].receiver = NewReceiver(Add32(p.seqno, 1))]
              ack == create_rudp_packet(RUDP_ACK, c1.ss[k].receiver.expected_seqno, 0, 0)
          IN send_packet(c1, TRUE, ack, sender)
     ELSE c

\* a SYN branch that restarts the receiver half whatever its state
M_OnSynRestarts(c, k, sender, p) ==
  LET c1 == [c EXCEPT !.ss[k].receiver = NewReceiver(Add32(p.seqno, 1))]
      ack == create_rudp_packet(RUDP_ACK, c1.ss[k].receiver.expected_seqno, 0, 0)
  IN send_packet(c1, TRUE, ack, sender)

OnSyn(c, k, sender, p) ==
  LET rcv == c.ss[k].receiver
  IN IF rcv = NULL \/ rcv.status = OPENING
     THEN LET c1 == [c EXCEPT !.ss[k].receiver = NewReceiver(Add32(p.seqno, 1))]
              ack == create_rudp_packet(RUDP_ACK, c1.ss[k].receiver.expected_seqno, 0, 0)
          IN send_packet(c1, TRUE, ack, sender)
     ELSE c

\* a receiver that hands a DATA of the retrospective window to the application
\* again
M_OnDataRedelivers(c, k, sender, p) ==
  LET rcv == c.ss[k].receiver
  IN IF rcv = NULL THEN Crash(c)
     ELSE LET opened == IF rcv.status = OPENING /\ p.seqno = rcv.expected_seqno
                        THEN [rcv EXCEPT !.status = OPEN] ELSE rcv
              seqno == Add32(p.seqno, 1)
              ack == create_rudp_packet(RUDP_ACK, seqno, 0, 0)
              c1 == [c EXCEPT !.ss[k].receiver = opened]
          IN IF p.seqno = rcv.expected_seqno
             THEN LET c2 == send_packet([c1 EXCEPT !.ss[k].receiver.expected_seqno = seqno],
                                        TRUE, ack, sender)
                  IN [c2 EXCEPT !.out = Append(@, OutRecv(sender, p))]
             ELSE IF /\ SEQ_GEQ(p.seqno, Sub32(rcv.expected_seqno, RUDP_WINDOW))
                     /\ SEQ_LT(p.seqno, rcv.expected_seqno)
             THEN LET c2 == send_packet(c1, TRUE, ack, sender)
                  IN [c2 EXCEPT !.out = Append(@, OutRecv(sender, p))]
             ELSE c1

\* a receiver that advances expected_seqno by two on an accepted DATA
M_OnDataSkipsOne(c, k, sender, p) ==
  LET rcv == c.ss[k].receiver
  IN IF rcv = NULL THEN Crash(c)
     ELSE LET opened == IF rcv.status = OPENING /\ p.seqno = rcv.expected_seqno
                        THEN [rcv EXCEPT !.status = OPEN] ELSE rcv
              seqno == Add32(p.seqno, 1)
              ack == create_rudp_packet(RUDP_ACK, seqno, 0, 0)
              c1 == [c EXCEPT !.ss[k].receiver = opened]
          IN IF p.seqno = rcv.expected_seqno
             THEN LET c2 == send_packet([c1 EXCEPT !.ss[k].receiver.expected_seqno =
                                                     Add32(p.seqno, 2)],
                                        TRUE, ack, sender)
                  IN [c2 EXCEPT !.out = Append(@, OutRecv(sender, p))]
             ELSE IF /\ SEQ_GEQ(p.seqno, Sub32(rcv.expected_seqno, RUDP_WINDOW))
                     /\ SEQ_LT(p.seqno, rcv.expected_seqno)
             THEN send_packet(c1, TRUE, ack, sender)
             ELSE c1

\* a receiver that acknowledges again only the DATA just before the expected one
M_OnDataNarrowWindow(c, k, sender, p) ==
  LET rcv == c.ss[k].receiver
  IN IF rcv = NULL THEN Crash(c)
     ELSE LET opened == IF rcv.status = OPENING /\ p.seqno = rcv.expected_seqno
                        THEN [rcv EXCEPT !.status = OPEN] ELSE rcv
              seqno == Add32(p.seqno, 1)
              ack == create_rudp_packet(RUDP_ACK, seqno, 0, 0)
              c1 == [c EXCEPT !.ss[k].receiver = opened]
          IN IF p.seqno = rcv.expected_seqno
             THEN LET c2 == send_packet([c1 EXCEPT !.ss[k].receiver.expected_seqno = seqno],
                                        TRUE, ack, sender)
                  IN [c2 EXCEPT !.out = Append(@, OutRecv(sender, p))]
             ELSE IF /\ SEQ_GEQ(p.seqno, Sub32(rcv.expected_seqno, 1))
                     /\ SEQ_LT(p.seqno, rcv.expected_seqno)
             THEN send_packet(c1, TRUE, ack, sender)
             ELSE c1

\* a receiver whose duplicate test compares all 32 bits
M_OnDataExactWindow(c, k, sender, p) ==
  LET rcv == c.ss[k].receiver
  IN IF rcv = NULL THEN Crash(c)
     ELSE LET opened == IF rcv.status = OPENING /\ p.seqno = rcv.expected_seqno
                        THEN [rcv EXCEPT !.status = OPEN] ELSE rcv
              seqno == Add32(p.seqno, 1)
              ack == create_rudp_packet(RUDP_ACK, seqno, 0, 0)
              c1 == [c EXCEPT !.ss[k].receiver = opened]
          IN IF p.seqno = rcv.expected_seqno
             THEN LET c2 == send_packet([c1 EXCEPT !.ss[k].receiver.expected_seqno = seqno],
                                        TRUE, ack, sender)
                  IN [c2 EXCEPT !.out = Append(@, OutRecv(sender, p))]
             ELSE IF \E d \in 1..RUDP_WINDOW : p.seqno = Sub32(rcv.expected_seqno, d)
             THEN send_packet(c1, TRUE, ack, sender)
             ELSE c1

\* a receiver that acknowledges every DATA it does not expect
M_OnDataAcksAnything(c, k, sender, p) ==
  LET rcv == c.ss[k].receiver
  IN IF rcv = NULL THEN Crash(c)
     ELSE LET opened == IF rcv.status = OPENING /\ p.seqno = rcv.expected_seqno
                        THEN [rcv EXCEPT !.status = OPEN] ELSE rcv
              seqno == Add32(p.seqno, 1)
              ack == create_rudp_packet(RUDP_ACK, seqno, 0, 0)
              c1 == [c EXCEPT !.ss[k].receiver = opened]
          IN IF p.seqno = rcv.expected_seqno
             THEN LET c2 == send_packet([c1 EXCEPT !.ss[k].receiver.expected_seqno = seqno],
                                        TRUE, ack, sender)
                  IN [c2 EXCEPT !.out = Append(@, OutRecv(sender, p))]
             ELSE send_packet(c1, TRUE, ack, sender)

OnData(c, k, sender, p) ==
  LET rcv == c.ss[k].receiver
  IN IF rcv = NULL THEN Crash(c)
     ELSE LET opened == IF rcv.status = OPENING /\ p.seqno = rcv.expected_seqno
                        THEN [rcv EXCEPT !.status = OPEN] ELSE rcv
              seqno == Add32(p.seqno, 1)
              ack == create_rudp_packet(RUDP_ACK, seqno, 0, 0)
              c1 == [c EXCEPT !.ss[k].receiver = opened]
          IN IF p.seqno = rcv.expected_seqno
             THEN LET c2 == send_packet([c1 EXCEPT !.ss[k].receiver.expected_seqno = seqno],
                                        TRUE, ack, sender)
                  IN [c2 EXCEPT !.out = Append(@, OutRecv(sender, p))]
             ELSE IF /\ SEQ_GEQ(p.seqno, Sub32(rcv.expected_seqno, RUDP_WINDOW))
                     /\ SEQ_LT(p.seqno, rcv.expected_seqno)
             THEN send_packet(c1, TRUE, ack, sender)
             ELSE c1

\* a FIN branch that accepts a FIN whatever its sequence number and the status
M_OnFinAnySeqno(c, k, close_requested, sender, p) ==
  LET rcv == c.ss[k].receiver
  IN IF rcv = NULL THEN Crash(c)
     ELSE LET ack == create_rudp_packet(RUDP_ACK, Add32(rcv.expected_seqno, 1), 0, 0)
              c1 == send_packet(c, TRUE, ack, sender)
          IN CloseIfDone([c1 EXCEPT !.ss[k].receiver.session_finished = TRUE],
                         close_requested, sender)

OnFin(c, k, close_requested, sender, p) ==
  LET rcv == c.ss[k].receiver
  IN IF rcv = NULL THEN Crash(c)
     ELSE IF rcv.status = OPEN /\ p.seqno = rcv.expected_seqno
       THEN LET ack == create_rudp_packet(RUDP_ACK, Add32(rcv.expected_seqno, 1), 0, 0)
                c1 == send_packet(c, TRUE, ack, sender)
            IN CloseIfDone([c1 EXCEPT !.ss[k].receiver.session_finished = TRUE],
                           close_requested, sender)
     ELSE c

\* a dispatcher that opens a receiver session on any packet of an unknown peer
M_ReceiveOpensOnAny(c, close_requested, sender, p) ==
  IF c.ss = <<>>
  THEN OnFirstSyn(c, sender, p)
  ELSE LET c1 == WalkList(c)
           k == FindSession(c1.ss, sender)
       IN IF k = 0
          THEN OnFirstSyn(c1, sender, p)
          ELSE IF p.type = RUDP_SYN THEN OnSyn(c1, k, sender, p)
          ELSE IF p.type = RUDP_ACK THEN OnAck(c1, k, close_requested, sender, p)
          ELSE IF p.type = RUDP_DATA THEN OnData(c1, k, sender, p)
          ELSE IF p.type = RUDP_FIN THEN OnFin(c1, k, close_requested, sender, p)
          ELSE c1

receive_callback(c, close_requested, sender, p) ==
  IF c.ss = <<>>
  THEN IF p.type = RUDP_SYN THEN OnFirstSyn(c, sender, p) ELSE c
  ELSE LET c1 == WalkList(c)
           k == FindSession(c1.ss, sender)
       IN IF k = 0
          THEN IF p.type = RUDP_SYN THEN OnFirstSyn(c1, sender, p) ELSE c1
          ELSE IF p.type = RUDP_SYN THEN OnSyn(c1, k, sender, p)
          ELSE IF p.type = RUDP_ACK THEN OnAck(c1, k, close_requested, sender, p)
          ELSE IF p.type = RUDP_DATA THEN OnData(c1, k, sender, p)
          ELSE IF p.type = RUDP_FIN THEN OnFin(c1, k, close_requested, sender, p)
          ELSE c1

\* ---------------------------------------------------------------- timeout_callback
\* retransmission: the counter, the packet again with a new timer, and then the
\* timer's packet freed here and freed again at the end of the callback
\* a retransmission that starts the count of the slots again
M_RetransmitResetsCount(bumped, timeargs) ==
  LET k == FindSession(bumped.ss, timeargs.recipient)
      c1 == [bumped EXCEPT !.ss[k].sender.retransmission_attempts = ZeroAttempts,
                           !.ss[k].sender.syn_retransmit_attempts = 0,
                           !.ss[k].sender.fin_retransmit_attempts = 0]
  IN Undefined(send_packet(c1, FALSE, timeargs.packet, timeargs.recipient))

Retransmit(bumped, timeargs) ==
  Undefined(send_packet(bumped, FALSE, timeargs.packet, timeargs.recipient))

\* a give-up that reports TIMEOUT and transmits the packet once more
M_GiveUpAndResend(c, timeargs) ==
  send_packet([c EXCEPT !.out = Append(@, OutEvent("TIMEOUT", timeargs.recipient))],
              FALSE, timeargs.packet, timeargs.recipient)

GiveUp(c, timeargs) ==
  [c EXCEPT !.out = Append(@, OutEvent("TIMEOUT", timeargs.recipient))]

timeout_callback(c, timeargs) ==
  LET c1 == WalkList(c)
      k == FindSession(c1.ss, timeargs.recipient)
  IN IF k = 0 THEN c1
     ELSE LET snd == c1.ss[k].sender
          IN IF snd = NULL THEN Crash(c1)
             ELSE IF timeargs.packet.type = RUDP_SYN
               THEN IF snd.syn_retransmit_attempts >= RUDP_MAXRETRANS THEN GiveUp(c1, timeargs)
                    ELSE Retransmit([c1 EXCEPT !.ss[k].sender.syn_retransmit_attempts = @ + 1],
                                    timeargs)
             ELSE IF timeargs.packet.type = RUDP_FIN
               THEN IF snd.fin_retransmit_attempts >= RUDP_MAXRETRANS THEN GiveUp(c1, timeargs)
                    ELSE Retransmit([c1 EXCEPT !.ss[k].sender.fin_retransmit_attempts = @ + 1],
                                    timeargs)
             ELSE LET index == SlotOf(snd.sliding_window, timeargs.packet.seqno)
                  IN IF index = 0 THEN Undefined(c1)
                     ELSE IF snd.retransmission_attempts[index] >= RUDP_MAXRETRANS
                       THEN GiveUp(c1, timeargs)
                     ELSE Retransmit(
                            [c1 EXCEPT !.ss[k].sender.retransmission_attempts[index] = @ + 1],
                            timeargs)

\* ---------------------------------------------------------------- rudp_close
\* a rudp_close that leaves the flag as it is
M_CloseLeavesFlag(flag) == flag

rudp_close(flag) == TRUE

\* ---------------------------------------------------------------- state
VARIABLES
  sessions,         \* sessions[h]: the session list of the socket of process h
  timers,           \* timers[h]: the timers pending in the reactor of process h
  close_requested,  \* close_requested[h]
  released,         \* released[h]: the socket closed its descriptor and freed itself
  crashed,          \* crashed[h]: the process died (NULL dereference, abort)
  net,              \* the datagrams in flight: [src, dst, pkt]
  submitted,        \* history: submitted[h][p], the payloads rudp_sendto accepted for p
  delivered,        \* history: delivered[h][p], the packets handed to the data handler
  events,           \* history: events[h], the calls of the event handler
  last,             \* the last step: its operation, process, arguments and emissions
  used,             \* how much of each bound the run has used
  lim               \* the bounds and the scenario of the run

vars == <<sessions, timers, close_requested, released, crashed, net,
          submitted, delivered, events, last, used, lim>>

NoStep == [op |-> "init", h |-> 0, peer |-> 0, pkt |-> NULL, out |-> <<>>, ret |-> 0,
           died |-> FALSE]

InitWith(l) ==
  /\ sessions = [h \in Hosts |-> <<>>]
  /\ timers = [h \in Hosts |-> {}]
  /\ close_requested = [h \in Hosts |-> FALSE]
  /\ released = [h \in Hosts |-> FALSE]
  /\ crashed = [h \in Hosts |-> FALSE]
  /\ net = {}
  /\ submitted = [h \in Hosts |-> [p \in Hosts |-> <<>>]]
  /\ delivered = [h \in Hosts |-> [p \in Hosts |-> <<>>]]
  /\ events = [h \in Hosts |-> <<>>]
  /\ last = NoStep
  /\ used = [sends |-> 0, fires |-> 0, drops |-> 0, dups |-> 0, bad |-> 0, fails |-> 0,
             strays |-> 0]
  /\ lim = l

\* lim: the scenario of a run. links: who calls rudp_sendto towards whom;
\* closers: who calls rudp_close; isns: the values rand() returns for an
\* initial sequence number
Scenario(sends, fires, drops, links, closers, isns) ==
  [sends |-> sends, fires |-> fires, drops |-> drops, dups |-> 0, bad |-> 0, fails |-> 0,
   strays |-> 0,
   links |-> links, closers |-> closers, isns |-> isns]

Init == InitWith(Scenario(MaxSends, MaxFires, 0, {<<1, 2>>}, {1}, {<<0, 65534>>}))

Alive(h) == ~crashed[h] /\ ~released[h]

\* the emissions of a handler, by kind
RECURSIVE Pick(_, _)
Pick(out, kind) ==
  IF out = <<>> THEN <<>>
  ELSE IF Head(out).kind = kind THEN <<Head(out)>> \o Pick(Tail(out), kind)
  ELSE Pick(Tail(out), kind)
Datagrams(h, out) == {[src |-> h, dst |-> out[i].to, pkt |-> out[i].pkt] :
                        i \in {j \in 1..Len(out) : out[j].kind = "pkt"}}
RECURSIVE Handed(_, _, _)
Handed(dl, out, i) ==
  IF i > Len(out) THEN dl
  ELSE IF out[i].kind = "recv"
    THEN Handed([dl EXCEPT ![out[i].to] = Append(@, out[i].pkt)], out, i + 1)
  ELSE Handed(dl, out, i + 1)

\* The state after a handler of process h ran to its end with context c.
Finish(h, c, step, net0) ==
  /\ sessions' = [sessions EXCEPT ![h] = c.ss]
  /\ timers' = [timers EXCEPT ![h] = c.tm]
  /\ released' = [released EXCEPT ![h] = @ \/ c.rel]
  /\ crashed' = crashed
  /\ net' = net0 \cup Datagrams(h, c.out)
  /\ delivered' = [delivered EXCEPT ![h] = Handed(@, c.out, 1)]
  /\ events' = [events EXCEPT ![h] = @ \o Pick(c.out, "event")]
  /\ last' = [step EXCEPT !.out = c.out, !.ret = c.ret]

\* The state after process h died inside a handler, having emitted out; ss is the
\* session list it leaves in its memory image.
Die(h, ss, out, step, net0) ==
  /\ sessions' = [sessions EXCEPT ![h] = ss]
  /\ timers' = [timers EXCEPT ![h] = {}]
  /\ released' = released
  /\ crashed' = [crashed EXCEPT ![h] = TRUE]
  /\ net' = net0 \cup Datagrams(h, out)
  /\ delivered' = [delivered EXCEPT ![h] = Handed(@, out, 1)]
  /\ events' = [events EXCEPT ![h] = @ \o Pick(out, "event")]
  /\ last' = [step EXCEPT !.out = out, !.ret = -1, !.died = TRUE]

\* A NULL dereference kills the process; undefined behaviour either kills it
\* where it happens or goes on as if the freed memory were intact.
Outcome(h, c, step, net0) ==
  IF c.crash THEN Die(h, c.ss, c.out, step, net0)
  ELSE \/ Finish(h, c, step, net0)
       \/ /\ c.ub >= 0
          /\ Die(h, sessions[h], SubSeq(c.out, 1, c.ub), step, net0)

Step(op, h, peer, pkt) == [NoStep EXCEPT !.op = op, !.h = h, !.peer = peer, !.pkt = pkt]

\* ---------------------------------------------------------------- actions
\* the application calls rudp_sendto(rsocket, data, len, to)
Sendto(h, to, len, seqno) ==
  /\ Alive(h)
  /\ <<h, to>> \in lim.links
  /\ len >= 0 /\ len <= RUDP_MAXPKTSIZE
  /\ used.sends < lim.sends
  /\ LET data == used.sends + 1
         c == rudp_sendto(Ctx(sessions[h], timers[h]), <<h>>, h, data, len, to, seqno)
         p == create_rudp_packet(RUDP_DATA, U32(0, 0), len, data)
     IN /\ Outcome(h, c, Step("sendto", h, to, p), net)
        /\ submitted' = IF crashed'[h] THEN submitted
                        ELSE [submitted EXCEPT ![h][to] = Append(@, [item |-> data, len |-> len])]
  /\ used' = [used EXCEPT !.sends = @ + 1]
  /\ UNCHANGED <<close_requested, lim>>

\* the application calls rudp_sendto with a length rudp_sendto rejects
SendtoBadLen(h, to, len) ==
  /\ Alive(h)
  /\ <<h, to>> \in lim.links
  /\ ~(len >= 0 /\ len <= RUDP_MAXPKTSIZE)
  /\ used.bad < lim.bad
  /\ LET c == rudp_sendto(Ctx(sessions[h], timers[h]), <<h>>, h, 0, len, to, U32(0, 0))
         p == create_rudp_packet(RUDP_DATA, U32(0, 0), len, 0)
     IN Outcome(h, c, Step("sendto", h, to, p), net)
  /\ used' = [used EXCEPT !.bad = @ + 1]
  /\ UNCHANGED <<close_requested, submitted, lim>>

\* the application calls rudp_sendto with a handle that is not the handle of its
\* socket (the handle 0 is no socket of any process)
SendtoUnknownHandle(h, to, len) ==
  /\ Alive(h)
  /\ <<h, to>> \in lim.links
  /\ len >= 0 /\ len <= RUDP_MAXPKTSIZE
  /\ used.bad < lim.bad
  /\ LET c == rudp_sendto(Ctx(sessions[h], timers[h]), <<h>>, 0, 0, len, to, U32(0, 0))
         p == create_rudp_packet(RUDP_DATA, U32(0, 0), len, 0)
     IN Outcome(h, c, Step("sendto_unknown", h, to, p), net)
  /\ used' = [used EXCEPT !.bad = @ + 1]
  /\ UNCHANGED <<close_requested, submitted, lim>>

\* the application calls rudp_close(rsocket)
Close(h) ==
  /\ Alive(h)
  /\ h \in lim.closers
  /\ close_requested' = [close_requested EXCEPT ![h] = rudp_close(@)]
  /\ last' = Step("close", h, 0, NULL)
  /\ UNCHANGED <<sessions, timers, released, crashed, net, submitted, delivered,
                 events, used, lim>>

\* the reactor calls receive_callback for a datagram
Deliver(m, net0) ==
  LET h == m.dst
      c == receive_callback(Ctx(sessions[h], timers[h]), close_requested[h], m.src, m.pkt)
  IN Outcome(h, c, Step("receive", h, m.src, m.pkt), net0)

Receive(m) ==
  /\ m \in net
  /\ Alive(m.dst)
  /\ Deliver(m, net \ {m})
  /\ UNCHANGED <<close_requested, submitted, used, lim>>

\* the network delivers a datagram and keeps a copy of it
Duplicate(m) ==
  /\ m \in net
  /\ Alive(m.dst)
  /\ used.dups < lim.dups
  /\ Deliver(m, net)
  /\ used' = [used EXCEPT !.dups = @ + 1]
  /\ UNCHANGED <<close_requested, submitted, lim>>

\* the network loses a datagram
Lose(m) ==
  /\ m \in net
  /\ used.drops < lim.drops
  /\ net' = net \ {m}
  /\ used' = [used EXCEPT !.drops = @ + 1]
  /\ last' = Step("lose", m.dst, m.src, m.pkt)
  /\ UNCHANGED <<sessions, timers, close_requested, released, crashed, submitted,
                 delivered, events, lim>>

\* the reactor calls timeout_callback for an expired timer, which it has removed
Timeout(h, t) ==
  /\ ~crashed[h]
  /\ t \in timers[h]
  /\ used.fires < lim.fires
  /\ LET c == timeout_callback(Ctx(sessions[h], timers[h] \ {t}), t)
     IN Outcome(h, c, Step("timeout", h, t.recipient, t.packet), net)
  /\ used' = [used EXCEPT !.fires = @ + 1]
  /\ UNCHANGED <<close_requested, submitted, lim>>

\* the timer of a packet expires only once nothing is in flight between the
\* two processes: the round trip it waits for is over
TimelyTimeout(h, t) ==
  /\ \A m \in net : {m.src, m.dst} # {h, t.recipient}
  /\ Timeout(h, t)

Next ==
  \/ \E h \in Hosts, to \in Hosts, len \in Lens, seqno \in lim.isns : Sendto(h, to, len, seqno)
  \/ \E h \in Hosts : Close(h)
  \/ \E m \in net : Receive(m)
  \/ \E h \in Hosts : \E t \in timers[h] : Timeout(h, t)

Spec == Init /\ [][Next]_vars

\* a socket with two peers, one of which sends back; no timer expires
InitMulti ==
  InitWith(Scenario(MultiSends, 0, 0, {<<1, 2>>, <<1, 3>>, <<2, 1>>}, {1, 2}, {<<0, 0>>}))

NextMulti ==
  \/ \E h \in Hosts, to \in Hosts, len \in Lens, seqno \in lim.isns : Sendto(h, to, len, seqno)
  \/ \E h \in Hosts : Close(h)
  \/ \E m \in net : Receive(m)

SpecMulti == InitMulti /\ [][NextMulti]_vars

\* a lossy network and timely timers
InitLossy ==
  InitWith(Scenario(LossySends, LossyFires, LossyDrops, {<<1, 2>>}, {1}, {<<0, 0>>}))

NextLossy ==
  \/ \E h \in Hosts, to \in Hosts, len \in Lens, seqno \in lim.isns : Sendto(h, to, len, seqno)
  \/ \E h \in Hosts : Close(h)
  \/ \E m \in net : Receive(m)
  \/ \E m \in net : Lose(m)
  \/ \E h \in Hosts : \E t \in timers[h] : TimelyTimeout(h, t)

SpecLossy == InitLossy /\ [][NextLossy]_vars

\* one datagram, timers that expire up to the retry ceiling
InitRetry ==
  InitWith(Scenario(RetrySends, RetryFires, 0, {<<1, 2>>}, {1}, {<<0, 0>>}))

SpecRetry == InitRetry /\ [][Next]_vars

\* an application that makes bad calls as well
InitApi ==
  InitWith([Scenario(ApiSends, 0, 0, {<<1, 2>>}, {1}, {<<0, 0>>}) EXCEPT !.bad = ApiBadCalls])

NextApi ==
  \/ \E h \in Hosts, to \in Hosts, len \in Lens, seqno \in lim.isns : Sendto(h, to, len, seqno)
  \/ \E h \in Hosts, to \in Hosts, len \in Lens : SendtoBadLen(h, to, len)
  \/ \E h \in Hosts, to \in Hosts, len \in Lens : SendtoUnknownHandle(h, to, len)
  \/ \E h \in Hosts : Close(h)
  \/ \E m \in net : Receive(m)

SpecApi == InitApi /\ [][NextApi]_vars

\* a socket with two peers that is closed while timers expire
InitClosing ==
  InitWith(Scenario(ClosingSends, ClosingFires, 0, {<<1, 2>>, <<1, 3>>}, {1}, {<<0, 0>>}))

SpecClosing == InitClosing /\ [][Next]_vars

\* two datagrams, timers that expire up to the retry ceiling
InitResend ==
  InitWith(Scenario(ResendSends, ResendFires, 0, {<<1, 2>>}, {1}, {<<0, 0>>}))

SpecResend == InitResend /\ [][Next]_vars

\* ---------------------------------------------------------------- observations
\* the half of process h towards peer p (of the first session the lookup finds)
HasSender(h, p) ==
  /\ FindSession(sessions[h], p) # 0
  /\ sessions[h][FindSession(sessions[h], p)].sender # NULL
SenderOf(h, p) == sessions[h][FindSession(sessions[h], p)].sender
HasReceiver(h, p) ==
  /\ FindSession(sessions[h], p) # 0
  /\ sessions[h][FindSession(sessions[h], p)].receiver # NULL
ReceiverOf(h, p) == sessions[h][FindSession(sessions[h], p)].receiver

\* what the data handler of a process was given, as (bytes, length) pairs
Payloads(pkts) == [i \in 1..Len(pkts) |-> [item |-> pkts[i].payload, len |-> pkts[i].payload_length]]
IsPrefix(a, b) == Len(a) <= Len(b) /\ \A i \in 1..Len(a) : a[i] = b[i]
HasEvent(h, ev, p) == \E i \in 1..Len(events[h]) : events[h][i].ev = ev /\ events[h][i].to = p
CountEvent(h, ev) == Cardinality({i \in 1..Len(events[h]) : events[h][i].ev = ev})

\* every datagram submitted by h for p has been acknowledged
Completed(h, p) ==
  /\ submitted[h][p] # <<>>
  /\ HasSender(h, p)
  /\ SenderOf(h, p).status # SYN_SENT
  /\ SenderOf(h, p).data_queue = <<>>
  /\ \A i \in 1..RUDP_WINDOW : SenderOf(h, p).sliding_window[i] = NULL

\* the packets of one kind a step emitted
EmittedPkts(out, type) ==
  {i \in 1..Len(out) : out[i].kind = "pkt" /\ out[i].pkt.type = type}

\* ---------------------------------------------------------------- claims
\* C1: when the datagrams submitted by a process for one peer have all been
\* acknowledged and no TIMEOUT was reported for that peer, the peer's data
\* handler has been called exactly once per datagram, in submission order, with
\* the same bytes and length; before that, what was delivered is a prefix of
\* what was submitted.
C1_DeliveredOnceInOrder ==
  \A h \in Hosts, p \in Hosts :
    /\ IsPrefix(Payloads(delivered[p][h]), submitted[h][p])
    /\ (Completed(h, p) /\ ~HasEvent(h, "TIMEOUT", p))
         => Payloads(delivered[p][h]) = submitted[h][p]

C1_Witness ==
  /\ Completed(1, 2)
  /\ Len(submitted[1][2]) = MaxSends
  /\ Payloads(delivered[2][1]) = submitted[1][2]
  /\ used.fires > 0

\* C3: a receiver half never hands the same DATA sequence number to the data
\* handler twice; a retransmitted DATA that was already delivered is answered
\* with an ACK and not delivered again.
C3_NoRedelivery ==
  \A h \in Hosts, p \in Hosts :
    \A i, j \in 1..Len(delivered[h][p]) :
      delivered[h][p][i].seqno = delivered[h][p][j].seqno => i = j

C3_Witness ==
  /\ last.op = "receive"
  /\ last.pkt.type = RUDP_DATA
  /\ \E i \in 1..Len(delivered[last.h][last.peer]) :
       delivered[last.h][last.peer][i].seqno = last.pkt.seqno
  /\ Len(last.out) = 1
  /\ last.out[1].kind = "pkt"
  /\ last.out[1].pkt.type = RUDP_ACK
  /\ last.out[1].pkt.seqno = Add32(last.pkt.seqno, 1)

\* nothing is left to happen: no datagram can be delivered and no timer is pending
Quiescent ==
  /\ \A m \in net : ~Alive(m.dst)
  /\ \A h \in Hosts : crashed[h] \/ timers[h] = {}

\* the application submitted a datagram after the FIN was sent
SubmittedAfterFin(h, p) ==
  /\ HasSender(h, p)
  /\ SenderOf(h, p).status = FIN_SENT
  /\ SenderOf(h, p).data_queue # <<>>

\* C2: over a network that loses at most MAX_RETRANS - 1 transmissions of a
\* packet, once nothing is left to happen every datagram submitted before the
\* FIN has been delivered exactly once and in order, and no TIMEOUT was
\* reported.
C2_DeliveredDespiteLoss ==
  (Quiescent /\ used.drops <= RUDP_MAXRETRANS - 1) =>
    \A h \in Hosts, p \in Hosts :
      \/ SubmittedAfterFin(h, p)
      \/ /\ Payloads(delivered[p][h]) = submitted[h][p]
         /\ ~HasEvent(h, "TIMEOUT", p)

\* the sessions of process h that have a sender half
SenderSessions(h) == {i \in 1..Len(sessions[h]) : sessions[h][i].sender # NULL}

\* the step just taken emitted this event at process h
JustEmitted(h, ev) ==
  /\ last.h = h
  /\ \E i \in 1..Len(last.out) : last.out[i].kind = "event" /\ last.out[i].ev = ev

\* a session is done: its sender half finished and its receiver half, if any, too
SessionDone(s) ==
  /\ s.sender # NULL
  /\ s.sender.session_finished
  /\ (s.receiver = NULL \/ s.receiver.session_finished)

\* C4: a socket with sender sessions on which rudp_close was called has reported
\* CLOSED by the time nothing is left to happen (every datagram was delivered,
\* no timer is pending, nobody died and no TIMEOUT was reported).
C4_ClosedAfterClose ==
  \A h \in Hosts :
    ( /\ Quiescent
      /\ close_requested[h]
      /\ SenderSessions(h) # {}
      /\ \A g \in Hosts : ~crashed[g] /\ CountEvent(g, "TIMEOUT") = 0 )
    => CountEvent(h, "CLOSED") = 1

\* C5: CLOSED is reported at most once per socket, and the step that reports it
\* leaves close_requested set and every session of the socket done.
C5_ClosedOnceWhenAllDone ==
  \A h \in Hosts :
    /\ CountEvent(h, "CLOSED") <= 1
    /\ JustEmitted(h, "CLOSED") =>
         /\ close_requested[h]
         /\ \A i \in 1..Len(sessions[h]) : SessionDone(sessions[h][i])

C5_Witness ==
  /\ JustEmitted(1, "CLOSED")
  /\ Len(sessions[1]) = 2
  /\ CountEvent(1, "CLOSED") = 1

\* C6: a session record is destroyed only when close_requested is set and both
\* of its halves are finished.
C6_DestroyedOnlyWhenDone ==
  \A h \in Hosts : \A i \in 1..Len(sessions[h]) :
    sessions[h][i].freed => close_requested[h] /\ SessionDone(sessions[h][i])

\* C7: a socket holds at most one session per peer address, and rudp_sendto to
\* a peer whose session has only a receiver half returns normally.
C7_OneSessionPerPeer ==
  \A h \in Hosts :
    /\ \A i, j \in 1..Len(sessions[h]) :
         sessions[h][i].address = sessions[h][j].address => i = j
    /\ (last.op = "sendto" /\ last.h = h /\ HasReceiver(h, last.peer)) => ~last.died

\* ---- observations of one step (the state before it, unprimed; after it, primed)
\* the DATA packets a step of h sent to p, in order
RECURSIVE DataTo(_, _)
DataTo(out, p) ==
  IF out = <<>> THEN <<>>
  ELSE IF Head(out).kind = "pkt" /\ Head(out).to = p /\ Head(out).pkt.type = RUDP_DATA
    THEN <<Head(out).pkt>> \o DataTo(Tail(out), p)
  ELSE DataTo(Tail(out), p)

\* the packets in a window
InWindow(window) == {window[i] : i \in {j \in 1..RUDP_WINDOW : window[j] # NULL}}

\* the retry counter that belongs to the packet of a timer
RetryCounter(snd, packet) ==
  IF packet.type = RUDP_SYN THEN snd.syn_retransmit_attempts
  ELSE IF packet.type = RUDP_FIN THEN snd.fin_retransmit_attempts
  ELSE IF SlotOf(snd.sliding_window, packet.seqno) = 0 THEN -1
  ELSE snd.retransmission_attempts[SlotOf(snd.sliding_window, packet.seqno)]

\* C8: rudp_sendto to a peer that has no session creates a sender half in
\* SYN_SENT holding the datagram in its queue and emits exactly one SYN(S) with
\* a SYN timer; a step emits DATA to a peer whose sender half is in SYN_SENT
\* only when it is the receipt of the ACK with seqno S + 1, and the first DATA
\* it then emits carries S + 1.
C8_Handshake ==
  [][\A h \in Hosts, p \in Hosts :
       LET k == FindSession(sessions[h], p)
           k2 == FindSession(sessions'[h], p)
           syn == create_rudp_packet(RUDP_SYN, sessions'[h][k2].sender.seqno, 0, 0)
           sent == DataTo(last'.out, p)
       IN /\ (last'.op = "sendto" /\ last'.h = h /\ last'.peer = p /\ k = 0 /\ ~last'.died)
               => /\ k2 # 0
                  /\ sessions'[h][k2].sender # NULL
                  /\ sessions'[h][k2].sender.status = SYN_SENT
                  /\ sessions'[h][k2].sender.data_queue =
                       <<[item |-> last'.pkt.payload, len |-> last'.pkt.payload_length]>>
                  /\ last'.out = <<OutPkt(p, syn)>>
                  /\ [packet |-> syn, recipient |-> p] \in timers'[h]
          /\ (last'.h = h /\ sent # <<>>)
               => /\ k # 0
                  /\ sessions[h][k].sender # NULL
                  /\ sessions[h][k].sender.status = SYN_SENT
                       => /\ last'.op = "receive"
                          /\ last'.peer = p
                          /\ last'.pkt.type = RUDP_ACK
                          /\ last'.pkt.seqno = Add32(sessions[h][k].sender.seqno, 1)
                          /\ sent[1].seqno = Add32(sessions[h][k].sender.seqno, 1)
    ]_vars

C8_Witness ==
  /\ last.op = "receive"
  /\ last.pkt.type = RUDP_ACK
  /\ delivered[last.peer][last.h] = <<>>
  /\ DataTo(last.out, last.peer) # <<>>
  /\ DataTo(last.out, last.peer)[1].seqno = last.pkt.seqno
  /\ SenderOf(last.h, last.peer).status = OPEN

\* C9: a timer that expires while the retry counter of its packet equals
\* MAX_RETRANS has one effect, a TIMEOUT event naming the peer: nothing is
\* transmitted, no timer is armed, and the sessions are left as they were.
C9_GiveUpOnlyReports ==
  [][\A h \in Hosts : \A t \in timers[h] :
       ( /\ last'.op = "timeout" /\ last'.h = h
         /\ last'.pkt = t.packet /\ last'.peer = t.recipient
         /\ HasSender(h, t.recipient)
         /\ RetryCounter(SenderOf(h, t.recipient), t.packet) = RUDP_MAXRETRANS )
       => /\ last'.out = <<OutEvent("TIMEOUT", t.recipient)>>
          /\ timers'[h] = timers[h] \ {t}
          /\ sessions' = sessions
          /\ net' = net
          /\ UNCHANGED <<close_requested, released, crashed, delivered, submitted>>
    ]_vars

C9_Witness ==
  /\ last.op = "timeout"
  /\ last.pkt.type = RUDP_DATA
  /\ last.out = <<OutEvent("TIMEOUT", last.peer)>>
  /\ RetryCounter(SenderOf(last.h, last.peer), last.pkt) = RUDP_MAXRETRANS

\* C10: every DATA a sender half transmits is held in its window, and a packet
\* leaves the window only when the ACK of the head of the window arrives, so at
\* most WINDOW DATA are transmitted and unacknowledged; a datagram submitted
\* while the window is full or the queue is not empty is queued and nothing is
\* transmitted; the queue of an open sender half shrinks only when the ACK of
\* the head of the window arrives.
C10_WindowBound ==
  [][\A h \in Hosts, p \in Hosts :
       LET k == FindSession(sessions[h], p)
           snd == sessions[h][k].sender
           snd2 == sessions'[h][k].sender
           head_acked == /\ last'.op = "receive" /\ last'.h = h /\ last'.peer = p
                         /\ last'.pkt.type = RUDP_ACK
                         /\ snd.sliding_window[1] # NULL
                         /\ last'.pkt.seqno = Add32(snd.sliding_window[1].seqno, 1)
       IN (k # 0 /\ snd # NULL /\ ~last'.died) =>
            /\ last'.h = h =>
                 \A i \in 1..Len(DataTo(last'.out, p)) :
                   DataTo(last'.out, p)[i] \in InWindow(snd2.sliding_window)
            /\ InWindow(snd.sliding_window) \ InWindow(snd2.sliding_window) # {}
                 => /\ head_acked
                    /\ InWindow(snd.sliding_window) \ InWindow(snd2.sliding_window)
                         = {snd.sliding_window[1]}
            /\ ( /\ last'.op = "sendto" /\ last'.h = h /\ last'.peer = p
                 /\ (FirstUnused(snd.sliding_window) = 0 \/ snd.data_queue # <<>>) )
                 => /\ last'.out = <<>>
                    /\ snd2.sliding_window = snd.sliding_window
                    /\ snd2.data_queue = Append(snd.data_queue,
                         [item |-> last'.pkt.payload, len |-> last'.pkt.payload_length])
            /\ (snd.status = OPEN /\ Len(snd2.data_queue) < Len(snd.data_queue))
                 => head_acked
    ]_vars

C10_Witness ==
  /\ last.op = "sendto"
  /\ last.out = <<>>
  /\ HasSender(last.h, last.peer)
  /\ SenderOf(last.h, last.peer).status = OPEN
  /\ FirstUnused(SenderOf(last.h, last.peer).sliding_window) = 0
  /\ SenderOf(last.h, last.peer).data_queue =
       <<[item |-> last.pkt.payload, len |-> last.pkt.payload_length]>>

\* the packets of the sender half (SYN, DATA, FIN) a step sent to p
SenderPktsTo(out, p) ==
  {i \in 1..Len(out) : /\ out[i].kind = "pkt" /\ out[i].to = p
                       /\ out[i].pkt.type \in {RUDP_SYN, RUDP_DATA, RUDP_FIN}}

AllFinished(ss) ==
  \A i \in 1..Len(ss) :
    /\ (ss[i].sender = NULL \/ ss[i].sender.session_finished)
    /\ (ss[i].receiver = NULL \/ ss[i].receiver.session_finished)

\* the step just taken was the receipt of a FIN that the receiver half accepted
AcceptedFin(h) ==
  /\ last.op = "receive" /\ last.h = h
  /\ last.pkt.type = RUDP_FIN
  /\ \E i \in 1..Len(last.out) :
       /\ last.out[i].kind = "pkt"
       /\ last.out[i].pkt.type = RUDP_ACK
       /\ last.out[i].pkt.seqno = Add32(last.pkt.seqno, 1)

\* C12: on a close-requested socket, the receipt of the FIN that leaves every
\* session finished (sessions with only a receiver half included) reports
\* CLOSED and releases the descriptor, and the handler does not fail.
C12_FinClosesReceiverOnly ==
  \A h \in Hosts :
    (AcceptedFin(h) /\ close_requested[h] /\ AllFinished(sessions[h]))
      => /\ ~last.died
         /\ JustEmitted(h, "CLOSED")
         /\ released[h]

\* C13: rudp_sendto on a socket whose close_requested flag is set returns an
\* error, queues nothing, creates no session and emits no packet.
C13_SendtoRejectedWhenClosing ==
  [][\A h \in Hosts :
       (last'.op = "sendto" /\ last'.h = h /\ close_requested[h])
         => /\ ~last'.died
            /\ last'.ret = -1
            /\ last'.out = <<>>
            /\ sessions' = sessions
            /\ timers' = timers
    ]_vars

\* C14: rudp_sendto with a length above RUDP_MAXPKTSIZE or below 0 returns an
\* error and changes nothing: no session, window, queue or timer changes, and
\* no packet and no event is emitted.
C14_BadLengthRejected ==
  [][( /\ last'.op = "sendto"
       /\ (last'.pkt.payload_length < 0 \/ last'.pkt.payload_length > RUDP_MAXPKTSIZE) )
       => /\ last'.ret = -1
          /\ ~last'.died
          /\ last'.out = <<>>
          /\ UNCHANGED <<sessions, timers, close_requested, released, crashed, net,
                         submitted, delivered, events>>
    ]_vars

C14_Witness ==
  /\ last.op = "sendto"
  /\ last.pkt.payload_length = RUDP_MAXPKTSIZE + 1
  /\ last.ret = -1
  /\ HasSender(last.h, last.peer)
  /\ SenderOf(last.h, last.peer).status = OPEN

\* C15: rudp_sendto with a handle that is not in the socket list, while the
\* list holds a socket, returns an error, changes no state and emits nothing.
C15_UnknownHandleRejected ==
  [][last'.op = "sendto_unknown"
       => /\ last'.ret = -1
          /\ ~last'.died
          /\ last'.out = <<>>
          /\ UNCHANGED <<sessions, timers, close_requested, released, crashed, net,
                         submitted, delivered, events>>
    ]_vars

\* C16: rudp_close only sets close_requested: the step emits nothing, releases
\* no descriptor, removes no session and changes no sender or receiver half.
C16_CloseOnlySetsFlag ==
  [][\A h \in Hosts :
       (last'.op = "close" /\ last'.h = h)
         => /\ close_requested' = [close_requested EXCEPT ![h] = TRUE]
            /\ last'.out = <<>>
            /\ UNCHANGED <<sessions, timers, released, crashed, net, delivered, events>>
    ]_vars

C16_Witness ==
  /\ last.op = "close"
  /\ close_requested[last.h]
  /\ ~released[last.h]
  /\ HasSender(last.h, 2)
  /\ SenderOf(last.h, 2).status = OPEN
  /\ SenderOf(last.h, 2).sliding_window[1] # NULL
  /\ timers[last.h] # {}

\* the sender halves of every process
Senders ==
  UNION {{sessions[h][i].sender : i \in SenderSessions(h)} : h \in Hosts}

\* C17: the window of every sender half is left-packed: no empty slot is
\* followed by an occupied one.
C17_WindowLeftPacked ==
  \A snd \in Senders : \A i \in 1..(RUDP_WINDOW - 1) :
    snd.sliding_window[i] = NULL => snd.sliding_window[i + 1] = NULL

C17_Witness ==
  /\ last.op = "receive" /\ last.pkt.type = RUDP_ACK
  /\ HasSender(last.h, last.peer)
  /\ SenderOf(last.h, last.peer).status = OPEN
  /\ SenderOf(last.h, last.peer).sliding_window[2] # NULL
  /\ SenderOf(last.h, last.peer).sliding_window[RUDP_WINDOW] = NULL
  /\ delivered[last.peer][last.h] # <<>>

\* C18: the sequence numbers in the occupied window slots increase by exactly 1
\* from slot to slot (modulo 2^32), the last occupied slot carries the sender's
\* seqno, and the payloads in the window and then the queue are in submission
\* order.
C18_ConsecutiveSeqnos ==
  \A snd \in Senders :
    /\ \A i \in 1..(RUDP_WINDOW - 1) :
         (snd.sliding_window[i] # NULL /\ snd.sliding_window[i + 1] # NULL)
           => /\ snd.sliding_window[i + 1].seqno = Add32(snd.sliding_window[i].seqno, 1)
              /\ snd.sliding_window[i + 1].payload > snd.sliding_window[i].payload
    /\ \A i \in 1..RUDP_WINDOW :
         ( /\ snd.sliding_window[i] # NULL
           /\ (i = RUDP_WINDOW \/ snd.sliding_window[i + 1] = NULL) )
           => /\ snd.sliding_window[i].seqno = snd.seqno
              /\ \A q \in 1..Len(snd.data_queue) :
                   snd.data_queue[q].item > snd.sliding_window[i].payload

C18_Witness ==
  /\ HasSender(1, 2)
  /\ SenderOf(1, 2).sliding_window[1] # NULL
  /\ SenderOf(1, 2).sliding_window[1].seqno = U32(0, 65535)
  /\ SenderOf(1, 2).sliding_window[RUDP_WINDOW] # NULL
  /\ SenderOf(1, 2).sliding_window[RUDP_WINDOW].seqno = U32(1, 1)
  /\ SenderOf(1, 2).data_queue # <<>>

\* C19: a finished sender half is in FIN_SENT with an empty window and an empty
\* queue.
C19_FinishedIsDrained ==
  \A snd \in Senders :
    snd.session_finished
      => /\ snd.status = FIN_SENT
         /\ snd.sliding_window = EmptyWindow
         /\ snd.data_queue = <<>>

\* the FIN packets a step sent to p
FinTo(out, p) ==
  {out[i].pkt : i \in {j \in 1..Len(out) : /\ out[j].kind = "pkt" /\ out[j].to = p
                                          /\ out[j].pkt.type = RUDP_FIN}}

\* C20: a step other than a retransmission sends a FIN to a peer only when
\* close_requested is set and the sender half was OPEN; its queue and window
\* are empty, the FIN carries the sequence number after the last DATA, the FIN
\* timer is armed and the half is left in FIN_SENT.
C20_FinOnlyWhenDrained ==
  [][\A h \in Hosts, p \in Hosts :
       LET k == FindSession(sessions[h], p)
           snd == sessions[h][k].sender
           snd2 == sessions'[h][k].sender
           fin == create_rudp_packet(RUDP_FIN, Add32(snd.seqno, 1), 0, 0)
       IN (last'.h = h /\ last'.op # "timeout" /\ ~last'.died /\ FinTo(last'.out, p) # {})
            => /\ close_requested[h]
               /\ k # 0 /\ snd # NULL
               /\ snd.status = OPEN
               /\ snd.data_queue = <<>> /\ snd2.data_queue = <<>>
               /\ snd2.sliding_window = EmptyWindow
               /\ FinTo(last'.out, p) = {fin}
               /\ snd2.seqno = fin.seqno
               /\ snd2.status = FIN_SENT
               /\ [packet |-> fin, recipient |-> p] \in timers'[h]
               /\ snd2.fin_timeout_arg = [packet |-> fin, recipient |-> p]
    ]_vars

\* a FIN sent to a peer other than the one whose ACK arrived
C20_Witness ==
  /\ last.op = "receive" /\ last.pkt.type = RUDP_ACK
  /\ \E p \in Hosts : /\ p # last.peer
                      /\ FinTo(last.out, p) # {}
                      /\ SenderOf(last.h, p).status = FIN_SENT

\* the ACK sequence number a sender half is waiting for; NULL when none
ExpectedAck(snd) ==
  IF snd.status = SYN_SENT THEN Add32(snd.seqno, 1)
  ELSE IF snd.status = OPEN
    THEN IF snd.sliding_window[1] = NULL THEN NULL
         ELSE Add32(snd.sliding_window[1].seqno, 1)
  ELSE IF snd.status = FIN_SENT THEN Add32(snd.seqno, 1)
  ELSE NULL

\* C21: an ACK whose seqno is not the one the sender half waits for in its
\* state changes nothing (no session, no timer) and transmits nothing; an ACK
\* for a packet deeper in the window does not advance the window.
C21_UnexpectedAckIgnored ==
  [][\A h \in Hosts, p \in Hosts :
       ( /\ last'.op = "receive" /\ last'.h = h /\ last'.peer = p
         /\ last'.pkt.type = RUDP_ACK
         /\ HasSender(h, p)
         /\ last'.pkt.seqno # ExpectedAck(SenderOf(h, p)) )
       => /\ last'.out = <<>>
          /\ ~last'.died
          /\ UNCHANGED <<sessions, timers, close_requested, released, crashed,
                         delivered, events>>
    ]_vars

\* an ACK for the second packet of the window arrived and was ignored
C21_Witness ==
  /\ last.op = "receive" /\ last.pkt.type = RUDP_ACK
  /\ HasSender(last.h, last.peer)
  /\ SenderOf(last.h, last.peer).status = OPEN
  /\ SenderOf(last.h, last.peer).sliding_window[2] # NULL
  /\ last.pkt.seqno = Add32(SenderOf(last.h, last.peer).sliding_window[2].seqno, 1)
  /\ last.out = <<>>

\* C22: the refill is greedy: a sender half in OPEN that has a queued datagram
\* has a full window, after the SYN-ACK and after every head-of-window ACK.
C22_GreedyRefill ==
  \A snd \in Senders :
    (snd.status = OPEN /\ snd.data_queue # <<>>) => FirstUnused(snd.sliding_window) = 0

\* an ACK whose refill filled the window and left a datagram queued
C22_Witness ==
  /\ last.op = "receive" /\ last.pkt.type = RUDP_ACK
  /\ DataTo(last.out, last.peer) # <<>>
  /\ SenderOf(last.h, last.peer).status = OPEN
  /\ SenderOf(last.h, last.peer).data_queue # <<>>
  /\ FirstUnused(SenderOf(last.h, last.peer).sliding_window) = 0

\* every retry counter of a sender half is within 0..RUDP_MAXRETRANS
CountersInRange(snd) ==
  /\ snd.syn_retransmit_attempts \in 0..RUDP_MAXRETRANS
  /\ snd.fin_retransmit_attempts \in 0..RUDP_MAXRETRANS
  /\ \A i \in 1..RUDP_WINDOW : snd.retransmission_attempts[i] \in 0..RUDP_MAXRETRANS

\* the step was a timer expiry of process h that transmitted the timer's packet
\* again
Retransmitted(h, p, step) ==
  /\ step.op = "timeout" /\ step.h = h /\ step.peer = p
  /\ \E i \in 1..Len(step.out) : step.out[i] = OutPkt(p, step.pkt)

\* C23: every retry counter stays within 0..MAX_RETRANS; each retransmission
\* of a SYN, DATA or FIN adds exactly 1 to the counter of that packet, so a
\* packet is transmitted at most 1 + MAX_RETRANS times; the counter of a slot
\* is 0 when a new packet is placed in it, and a packet that stays in the
\* window keeps its counter when the window shifts.
C23_RetryCountersBounded ==
  [][\A h \in Hosts, p \in Hosts :
       LET k == FindSession(sessions[h], p)
           snd == sessions[h][k].sender
           snd2 == sessions'[h][k].sender
       IN /\ HasSender(h, p)' => CountersInRange(SenderOf(h, p))'
          /\ (k # 0 /\ snd # NULL /\ ~last'.died) =>
               /\ Retransmitted(h, p, last')
                    => /\ RetryCounter(snd, last'.pkt) < RUDP_MAXRETRANS
                       /\ RetryCounter(snd2, last'.pkt) = RetryCounter(snd, last'.pkt) + 1
               /\ \A j \in 1..RUDP_WINDOW :
                    (snd2.sliding_window[j] # NULL
                       /\ snd2.sliding_window[j] \notin InWindow(snd.sliding_window))
                      => snd2.retransmission_attempts[j] = 0
               /\ \A i \in 1..RUDP_WINDOW, j \in 1..RUDP_WINDOW :
                    ( /\ snd.sliding_window[i] # NULL
                      /\ snd2.sliding_window[j] = snd.sliding_window[i]
                      /\ ~(Retransmitted(h, p, last') /\ last'.pkt = snd.sliding_window[i]) )
                      => snd2.retransmission_attempts[j] = snd.retransmission_attempts[i]
    ]_vars

\* the ACK of the head of the window arrived and the second packet, which had
\* been retransmitted, moved to the first slot with its counter
C23_Witness ==
  /\ last.op = "receive" /\ last.pkt.type = RUDP_ACK
  /\ HasSender(last.h, last.peer)
  /\ SenderOf(last.h, last.peer).sliding_window[1] # NULL
  /\ last.pkt.seqno = SenderOf(last.h, last.peer).sliding_window[1].seqno
  /\ SenderOf(last.h, last.peer).retransmission_attempts[1] = RUDP_MAXRETRANS

\* C24: the expiry of the timer of window slot i with retries[i] below
\* MAX_RETRANS adds 1 to retries[i], transmits window[i] again unchanged and
\* leaves one timer pending for it; every other slot, the queue, the seqno, the
\* state and the other timers are unchanged, and the process goes on.
C24_DataRetransmission ==
  [][\A h \in Hosts : \A t \in timers[h] :
       LET p == t.recipient
           k == FindSession(sessions[h], p)
           snd == sessions[h][k].sender
           i == SlotOf(snd.sliding_window, t.packet.seqno)
       IN ( /\ last'.op = "timeout" /\ last'.h = h
            /\ last'.pkt = t.packet /\ last'.peer = p
            /\ t.packet.type = RUDP_DATA
            /\ HasSender(h, p)
            /\ i # 0
            /\ snd.retransmission_attempts[i] < RUDP_MAXRETRANS )
          => /\ ~last'.died
             /\ last'.out = <<OutPkt(p, snd.sliding_window[i])>>
             /\ snd.sliding_window[i] = t.packet
             /\ timers'[h] = timers[h]
             /\ sessions' = [sessions EXCEPT ![h][k].sender.retransmission_attempts[i] = @ + 1]
             /\ UNCHANGED <<close_requested, released, crashed, delivered, events>>
    ]_vars

\* the packets of a sender half that were transmitted and are not acknowledged
OutstandingPkts(snd) ==
  IF snd.status = SYN_SENT THEN {create_rudp_packet(RUDP_SYN, snd.seqno, 0, 0)}
  ELSE IF snd.status = OPEN THEN InWindow(snd.sliding_window)
  ELSE IF snd.status = FIN_SENT /\ ~snd.session_finished
    THEN {create_rudp_packet(RUDP_FIN, snd.seqno, 0, 0)}
  ELSE {}

\* every pending timer belongs to an outstanding packet, and while no TIMEOUT
\* was reported for a peer every outstanding packet has its timer pending
TimersMatchPackets(h) ==
  /\ \A t \in timers[h] :
       /\ t.packet.type # RUDP_ACK
       /\ HasSender(h, t.recipient)
       /\ t.packet \in OutstandingPkts(SenderOf(h, t.recipient))
  /\ \A p \in Hosts :
       (HasSender(h, p) /\ ~HasEvent(h, "TIMEOUT", p))
         => \A pk \in OutstandingPkts(SenderOf(h, p)) :
              [packet |-> pk, recipient |-> p] \in timers[h]

\* C25: in every state of a live process each outstanding SYN, window DATA or
\* FIN that was not given up has its timer pending, every pending timer
\* belongs to such a packet (none to an ACK, none to an acknowledged packet),
\* and a step arms a timer for a packet only when none is pending for it.
C25_OneTimerPerPacket ==
  [][\A h \in Hosts :
       /\ ~crashed'[h] => TimersMatchPackets(h)'
       /\ (last'.h = h /\ ~last'.died) =>
            \A i \in 1..Len(last'.out) :
              last'.out[i].kind = "pkt" =>
                LET t == [packet |-> last'.out[i].pkt, recipient |-> last'.out[i].to]
                IN IF t.packet.type = RUDP_ACK THEN t \notin timers'[h]
                   ELSE /\ t \in timers'[h]
                        /\ (t \in timers[h] => (last'.op = "timeout" /\ last'.pkt = t.packet))
    ]_vars

\* a full window after a retransmission: one timer per slot and no other
C25_Witness ==
  /\ HasSender(1, 2)
  /\ SenderOf(1, 2).status = OPEN
  /\ FirstUnused(SenderOf(1, 2).sliding_window) = 0
  /\ Cardinality(timers[1]) = RUDP_WINDOW
  /\ last.op = "timeout" /\ last.h = 1 /\ ~last.died

\* ---------------------------------------------------------------- failing sendto(2)
\* the handler logged a failed datagram send
SendFailed(out) == \E i \in 1..Len(out) : out[i].kind = "log"

\* rudp_sendto during which the n-th datagram send fails
SendtoFails(h, to, len, seqno, n) ==
  /\ Alive(h)
  /\ <<h, to>> \in lim.links
  /\ len >= 0 /\ len <= RUDP_MAXPKTSIZE
  /\ used.sends < lim.sends
  /\ used.fails < lim.fails
  /\ LET data == used.sends + 1
         c == rudp_sendto(IoCtx(sessions[h], timers[h], n), <<h>>, h, data, len, to, seqno)
         p == create_rudp_packet(RUDP_DATA, U32(0, 0), len, data)
     IN /\ SendFailed(c.out)
        /\ Outcome(h, c, Step("sendto", h, to, p), net)
        /\ submitted' = IF crashed'[h] THEN submitted
                        ELSE [submitted EXCEPT ![h][to] = Append(@, [item |-> data, len |-> len])]
  /\ used' = [used EXCEPT !.sends = @ + 1, !.fails = @ + 1]
  /\ UNCHANGED <<close_requested, lim>>

\* receive_callback during which the n-th datagram send fails
ReceiveFails(m, n) ==
  /\ m \in net
  /\ Alive(m.dst)
  /\ used.fails < lim.fails
  /\ LET h == m.dst
         c == receive_callback(IoCtx(sessions[h], timers[h], n), close_requested[h],
                               m.src, m.pkt)
     IN /\ SendFailed(c.out)
        /\ Outcome(h, c, Step("receive", h, m.src, m.pkt), net \ {m})
  /\ used' = [used EXCEPT !.fails = @ + 1]
  /\ UNCHANGED <<close_requested, submitted, lim>>

\* timeout_callback during which the retransmission's datagram send fails
TimeoutFails(h, t) ==
  /\ ~crashed[h]
  /\ t \in timers[h]
  /\ used.fires < lim.fires
  /\ used.fails < lim.fails
  /\ LET c == timeout_callback(IoCtx(sessions[h], timers[h] \ {t}, 1), t)
     IN /\ SendFailed(c.out)
        /\ Outcome(h, c, Step("timeout", h, t.recipient, t.packet), net)
  /\ used' = [used EXCEPT !.fires = @ + 1, !.fails = @ + 1]
  /\ UNCHANGED <<close_requested, submitted, lim>>

InitIo ==
  InitWith([Scenario(IoSends, IoFires, 0, {<<1, 2>>}, {1}, {<<0, 65534>>})
              EXCEPT !.fails = IoFails])

NextIo ==
  \/ Next
  \/ \E h \in Hosts, to \in Hosts, len \in Lens, seqno \in lim.isns, n \in 1..IoCalls :
       SendtoFails(h, to, len, seqno, n)
  \/ \E m \in net, n \in 1..IoCalls : ReceiveFails(m, n)
  \/ \E h \in Hosts : \E t \in timers[h] : TimeoutFails(h, t)

SpecIo == InitIo /\ [][NextIo]_vars

\* C26: a step of a live process in which the datagram send of a SYN, DATA or
\* FIN fails leaves a retransmission timer for that packet pending, so that the
\* packet is retried.
C26_FailedSendKeepsTimer ==
  [][\A i \in 1..Len(last'.out) :
       ( /\ last'.out[i].kind = "log"
         /\ last'.out[i].pkt.type \in {RUDP_SYN, RUDP_DATA, RUDP_FIN}
         /\ ~last'.died )
       => [packet |-> last'.out[i].pkt, recipient |-> last'.out[i].to]
            \in timers'[last'.h]
    ]_vars

\* the last step was receive_callback for a packet of this type
Received(step, type) ==
  step.op = "receive" /\ step.pkt # NULL /\ step.pkt.type = type

\* the one ACK a handler emitted towards a peer
AckTo(p, seqno) == OutPkt(p, create_rudp_packet(RUDP_ACK, seqno, 0, 0))

\* C27: a SYN(s) from a peer with no session, with a session that has no
\* receiver half, or with a receiver half in OPENING leaves a receiver half in
\* OPENING with expected_seqno = s + 1 that is not finished, emits exactly
\* ACK(s + 1), delivers nothing and touches neither the sender half nor a timer.
C27_SynOpensReceiver ==
  [][\A h \in Hosts, p \in Hosts :
     LET k == FindSession(sessions[h], p)
     IN ( /\ Received(last', RUDP_SYN) /\ last'.h = h /\ last'.peer = p
          /\ \/ k = 0
             \/ sessions[h][k].receiver = NULL
             \/ sessions[h][k].receiver.status = OPENING )
        => /\ ~last'.died
           /\ HasReceiver(h, p)'
           /\ ReceiverOf(h, p)' = [status |-> OPENING,
                                   expected_seqno |-> Add32(last'.pkt.seqno, 1),
                                   session_finished |-> FALSE]
           /\ last'.out = <<AckTo(p, Add32(last'.pkt.seqno, 1))>>
           /\ k # 0 => sessions'[h][k].sender = sessions[h][k].sender
           /\ UNCHANGED <<timers, delivered, events, released>>
    ]_vars

\* a retransmitted SYN that arrived after the sender was opened by the ACK of
\* the first one, and before any DATA
C27_Witness ==
  /\ Received(last, RUDP_SYN) /\ last.h = 2 /\ ~last.died
  /\ last.out = <<AckTo(1, Add32(last.pkt.seqno, 1))>>
  /\ HasSender(1, 2) /\ SenderOf(1, 2).status = OPEN
  /\ ReceiverOf(2, 1).status = OPENING

\* C28: a SYN for a session whose receiver half is OPEN changes nothing and
\* emits nothing.
C28_SynOnOpenIgnored ==
  [][\A h \in Hosts, p \in Hosts :
        ( /\ Received(last', RUDP_SYN) /\ last'.h = h /\ last'.peer = p
          /\ HasReceiver(h, p)
          /\ ReceiverOf(h, p).status = OPEN )
        => /\ ~last'.died
           /\ last'.out = <<>>
           /\ UNCHANGED <<sessions, timers, delivered, events, released, close_requested>>
    ]_vars

\* a retransmitted SYN that arrived after a DATA was delivered
C28_Witness ==
  /\ Received(last, RUDP_SYN) /\ last.h = 2 /\ ~last.died
  /\ last.out = <<>>
  /\ HasReceiver(2, 1) /\ ReceiverOf(2, 1).status = OPEN
  /\ Len(delivered[2][1]) > 0

\* C29: the receiver half of a live process holds expected_seqno =
\* initial + N + 1 after N deliveries, initial being the sequence number of the
\* peer's SYN; a DATA carrying expected_seqno adds exactly 1 to it, is handed to
\* the application and is answered with one ACK carrying the new value.
C29_ExpectedCountsDeliveries ==
  [][/\ \A h \in Hosts, p \in Hosts :
          (~crashed'[h] /\ HasReceiver(h, p)')
            => \E initial \in lim.isns :
                 ReceiverOf(h, p)'.expected_seqno
                   = Add32(initial, Len(delivered'[h][p]) + 1)
     /\ \A h \in Hosts, p \in Hosts :
           ( /\ Received(last', RUDP_DATA) /\ last'.h = h /\ last'.peer = p
             /\ HasReceiver(h, p)
             /\ last'.pkt.seqno = ReceiverOf(h, p).expected_seqno )
           => /\ ~last'.died
              /\ ReceiverOf(h, p)'.expected_seqno = Add32(ReceiverOf(h, p).expected_seqno, 1)
              /\ last'.out = <<AckTo(p, ReceiverOf(h, p)'.expected_seqno), OutRecv(p, last'.pkt)>>
              /\ delivered'[h][p] = Append(delivered[h][p], last'.pkt)
    ]_vars

\* the third DATA was accepted, across the 16-bit boundary of the sequence space
C29_Witness ==
  /\ Received(last, RUDP_DATA) /\ last.h = 2 /\ ~last.died
  /\ Len(last.out) = 2
  /\ Len(delivered[2][1]) = 3
  /\ ReceiverOf(2, 1).expected_seqno = U32(1, 2)

\* s is one of the RUDP_WINDOW sequence numbers before expected, modulo 2^32
InRetroWindow(s, expected) == \E d \in 1..RUDP_WINDOW : s = Sub32(expected, d)

StraySeqnos(h, p) ==
  LET k == FindSession(sessions[h], p)
      near(e) == {Add32(e, d) : d \in 0..StrayDist} \cup {Sub32(e, d) : d \in 0..StrayDist}
  IN IF k = 0 THEN lim.isns
     ELSE (IF sessions[h][k].receiver = NULL THEN {}
           ELSE near(sessions[h][k].receiver.expected_seqno))
          \cup (IF sessions[h][k].sender = NULL THEN lim.isns
                ELSE near(sessions[h][k].sender.seqno))

\* the reactor calls receive_callback for a datagram that claims to come from p
\* and that no rudp_sendto of the run caused
Stray(h, p, type, seqno) ==
  /\ Alive(h)
  /\ p # h
  /\ used.strays < lim.strays
  /\ Deliver([src |-> p, dst |-> h, pkt |-> create_rudp_packet(type, seqno, 0, 0)], net)
  /\ used' = [used EXCEPT !.strays = @ + 1]
  /\ UNCHANGED <<close_requested, submitted, lim>>

InitWire ==
  InitWith([Scenario(WireSends, 0, 0, {<<1, 2>>}, {1}, {<<0, 65534>>})
              EXCEPT !.strays = WireStrays])

NextWire ==
  \/ \E h \in Hosts, to \in Hosts, len \in Lens, seqno \in lim.isns : Sendto(h, to, len, seqno)
  \/ \E h \in Hosts : Close(h)
  \/ \E m \in net : Receive(m)
  \/ \E h \in Hosts, p \in Hosts, type \in {RUDP_DATA, RUDP_ACK, RUDP_SYN, RUDP_FIN} :
       \E seqno \in StraySeqnos(h, p) : Stray(h, p, type, seqno)

SpecWire == InitWire /\ [][NextWire]_vars

\* C31: a receiver half becomes finished only in a receive_callback step for a
\* FIN(s) that found it OPEN with expected_seqno = s, and that step emits
\* ACK(s + 1) first; on a socket none of whose session structs has been freed,
\* a FIN with another sequence number, or one that finds the half in OPENING,
\* emits nothing and changes nothing.
C31_FinAcceptedOnlyInOrder ==
  [][\A h \in Hosts, p \in Hosts :
       LET k == FindSession(sessions[h], p)
           rcv == sessions[h][k].receiver
           s == last'.pkt.seqno
       IN /\ ( /\ HasReceiver(h, p)' /\ ReceiverOf(h, p)'.session_finished
               /\ ~(HasReceiver(h, p) /\ rcv.session_finished) )
             => /\ Received(last', RUDP_FIN) /\ last'.h = h /\ last'.peer = p
                /\ HasReceiver(h, p)
                /\ rcv.status = OPEN /\ rcv.expected_seqno = s
                /\ Len(last'.out) >= 1 /\ last'.out[1] = AckTo(p, Add32(s, 1))
          /\ ( /\ Received(last', RUDP_FIN) /\ last'.h = h /\ last'.peer = p
               /\ ~AnyFreed(sessions[h])
               /\ HasReceiver(h, p)
               /\ (rcv.status = OPENING \/ rcv.expected_seqno # s) )
             => /\ ~last'.died
                /\ last'.out = <<>>
                /\ UNCHANGED <<sessions, timers, delivered, events, released>>
    ]_vars

\* a FIN with the sequence number after the expected one reached an OPEN
\* receiver half that had delivered a payload, and was ignored
C31_Witness ==
  /\ Received(last, RUDP_FIN) /\ last.h = 2 /\ last.peer = 1 /\ ~last.died
  /\ last.out = <<>>
  /\ HasReceiver(2, 1) /\ ReceiverOf(2, 1).status = OPEN
  /\ ~ReceiverOf(2, 1).session_finished
  /\ last.pkt.seqno = Add32(ReceiverOf(2, 1).expected_seqno, 1)
  /\ Len(delivered[2][1]) > 0

\* C32: a DATA carrying expected_seqno adds exactly 1 to expected_seqno, and so
\* does a FIN carrying expected_seqno that finds the receiver half OPEN: after
\* accepting FIN(s) the half holds expected_seqno = s + 1.
C32_ExpectedAdvancesOnFin ==
  [][\A h \in Hosts, p \in Hosts :
       ( /\ last'.op = "receive" /\ last'.pkt # NULL
         /\ last'.h = h /\ last'.peer = p /\ ~last'.died
         /\ HasReceiver(h, p)
         /\ last'.pkt.seqno = ReceiverOf(h, p).expected_seqno
         /\ \/ last'.pkt.type = RUDP_DATA
            \/ last'.pkt.type = RUDP_FIN /\ ReceiverOf(h, p).status = OPEN )
       => ReceiverOf(h, p)'.expected_seqno = Add32(last'.pkt.seqno, 1)
    ]_vars

\* C33: a packet for a session whose targeted half is missing (an ACK when there
\* is no sender half, a DATA or a FIN when there is no receiver half) is dropped:
\* receive_callback returns, emits nothing and changes nothing.
C33_MissingHalfDropped ==
  [][\A h \in Hosts, p \in Hosts :
       LET k == FindSession(sessions[h], p)
       IN ( /\ last'.op = "receive" /\ last'.pkt # NULL
            /\ last'.h = h /\ last'.peer = p
            /\ k # 0
            /\ \/ last'.pkt.type = RUDP_ACK /\ sessions[h][k].sender = NULL
               \/ /\ last'.pkt.type \in {RUDP_DATA, RUDP_FIN}
                  /\ sessions[h][k].receiver = NULL )
          => /\ ~last'.died
             /\ last'.out = <<>>
             /\ UNCHANGED <<sessions, timers, delivered, events, released, crashed>>
    ]_vars

\* C34: on a socket none of whose session structs has been freed, a DATA, ACK
\* or FIN from an address for which the socket has no session creates no
\* session, emits nothing, invokes no callback and changes no session or timer.
C34_NoSessionDropped ==
  [][\A h \in Hosts, p \in Hosts :
       ( /\ last'.op = "receive" /\ last'.pkt # NULL
         /\ last'.h = h /\ last'.peer = p
         /\ last'.pkt.type \in {RUDP_DATA, RUDP_ACK, RUDP_FIN}
         /\ ~AnyFreed(sessions[h])
         /\ FindSession(sessions[h], p) = 0 )
       => /\ ~last'.died
          /\ last'.out = <<>>
          /\ UNCHANGED <<sessions, timers, delivered, events, released, crashed>>
    ]_vars

\* a DATA from a third address reached a socket that has a session with a full
\* handshake for another peer
C34_Witness ==
  /\ Received(last, RUDP_DATA) /\ last.h = 1 /\ last.peer = 3 /\ ~last.died
  /\ last.out = <<>>
  /\ FindSession(sessions[1], 3) = 0
  /\ HasSender(1, 2) /\ SenderOf(1, 2).status = OPEN
  /\ InWindow(SenderOf(1, 2).sliding_window) # {}

\* ---------------------------------------------------------------- the duplicate test
\* the sequence numbers a probing DATA carries: those up to RUDP_WINDOW + 1 around
\* the expected one, and the same numbers 2^15 and 2^16 further away
EpochSeqnos(h, p) ==
  LET k == FindSession(sessions[h], p)
      e == sessions[h][k].receiver.expected_seqno
      near == {Add32(e, d) : d \in 0..(RUDP_WINDOW + 1)}
                \cup {Sub32(e, d) : d \in 0..(RUDP_WINDOW + 1)}
  IN IF k = 0 \/ sessions[h][k].receiver = NULL THEN {}
     ELSE UNION {{x, <<(x[1] + 1) % U16, x[2]>>, <<(x[1] + U16 - 1) % U16, x[2]>>,
                  <<x[1], (x[2] + 32768) % U16>>} : x \in near}

InitSeq ==
  InitWith([Scenario(SeqSends, 0, 0, {<<1, 2>>}, {}, SeqIsns) EXCEPT !.strays = SeqProbes])

NextSeq ==
  \/ \E h \in Hosts, to \in Hosts, len \in Lens, seqno \in lim.isns : Sendto(h, to, len, seqno)
  \/ \E m \in net : Receive(m)
  \/ \E h \in Hosts, p \in Hosts :
       \E seqno \in EpochSeqnos(h, p) : Stray(h, p, RUDP_DATA, seqno)

SpecSeq == InitSeq /\ [][NextSeq]_vars

\* the low 16 bits of a - b
Low16Diff(a, b) == (a[2] + U16 - b[2]) % U16

\* the step was receive_callback for a DATA that ran the duplicate test of a
\* receiver half, and the test passed iff it emitted the ACK of that DATA
DupTested(h, p, step) ==
  /\ Received(step, RUDP_DATA) /\ step.h = h /\ step.peer = p /\ ~step.died
  /\ HasReceiver(h, p)
  /\ step.pkt.seqno # ReceiverOf(h, p).expected_seqno
DupAccepted(p, step) == step.out = <<AckTo(p, Add32(step.pkt.seqno, 1))>>

\* C35 as stated: the duplicate test accepts DATA(s) exactly when s is one of
\* the RUDP_WINDOW sequence numbers before expected_seqno modulo 2^32, for all
\* s and expected_seqno; SEQ_LT(a, b) holds iff the difference cast to 16 bits
\* is negative.
C35_DupTestExact ==
  [][\A h \in Hosts, p \in Hosts :
       DupTested(h, p, last') =>
         LET s == last'.pkt.seqno
             e == ReceiverOf(h, p).expected_seqno
         IN /\ DupAccepted(p, last') <=> InRetroWindow(s, e)
            /\ SEQ_LT(s, e) <=> Low16Diff(s, e) >= 32768
    ]_vars

\* C35 amended: the duplicate test accepts DATA(s) exactly when the low 16 bits
\* of expected_seqno - s are in 1..RUDP_WINDOW, whatever the high 16 bits of s
\* are; SEQ_LT(a, b) holds iff the difference cast to 16 bits is negative.
C35_DupTestMod16 ==
  [][\A h \in Hosts, p \in Hosts :
       DupTested(h, p, last') =>
         LET s == last'.pkt.seqno
             e == ReceiverOf(h, p).expected_seqno
         IN /\ DupAccepted(p, last') <=> Low16Diff(e, s) \in 1..RUDP_WINDOW
            /\ ~DupAccepted(p, last') => last'.out = <<>>
            /\ SEQ_LT(s, e) <=> Low16Diff(s, e) >= 32768
    ]_vars

\* a DATA 2^16 away from the sequence number before the expected one was
\* acknowledged as a duplicate
C35_Witness ==
  /\ Received(last, RUDP_DATA) /\ last.h = 2 /\ last.peer = 1 /\ ~last.died
  /\ HasReceiver(2, 1)
  /\ DupAccepted(1, last)
  /\ ~InRetroWindow(last.pkt.seqno, ReceiverOf(2, 1).expected_seqno)
  /\ Low16Diff(ReceiverOf(2, 1).expected_seqno, last.pkt.seqno) = 1

\* ---------------------------------------------------------------- lossy, duplicating channel
InitChannel ==
  InitWith([Scenario(ChannelSends, ChannelFires, ChannelDrops, {<<1, 2>>}, {1}, {<<0, 65534>>})
              EXCEPT !.dups = ChannelDups])

NextChannel ==
  \/ Next
  \/ \E m \in net : Duplicate(m)
  \/ \E m \in net : Lose(m)

SpecChannel == InitChannel /\ [][NextChannel]_vars

\* the number of datagrams of h for p that have left the sender's window: those
\* submitted that are neither in the queue nor in the window
AckedCount(h, p) ==
  Len(submitted[h][p]) - Len(SenderOf(h, p).data_queue)
    - Cardinality(InWindow(SenderOf(h, p).sliding_window))

\* C36: with loss, duplication and reordering but no forged packet, the
\* datagrams that have left a sender's window are a prefix of what the peer's
\* receiver half delivered, in submission order (so their number never exceeds
\* the number delivered), and a finished sender half has a finished receiver
\* half at the peer.
C36_AckedImpliesDelivered ==
  \A h \in Hosts, p \in Hosts :
    HasSender(h, p) =>
      /\ AckedCount(h, p) >= 0
      /\ AckedCount(h, p) <= Len(delivered[p][h])
      /\ IsPrefix(SubSeq(submitted[h][p], 1, AckedCount(h, p)), Payloads(delivered[p][h]))
      /\ SenderOf(h, p).session_finished
           => HasReceiver(p, h) /\ ReceiverOf(p, h).session_finished

\* both datagrams left the window and the sender half finished although a
\* datagram was lost, one was duplicated and a timer expired
C36_Witness ==
  /\ HasSender(1, 2) /\ SenderOf(1, 2).session_finished
  /\ AckedCount(1, 2) = ChannelSends
  /\ used.drops = ChannelDrops /\ used.dups = ChannelDups /\ used.fires > 0

\* a < b as unsigned 32-bit numbers
Lt32(a, b) == a[1] < b[1] \/ (a[1] = b[1] /\ a[2] < b[2])

\* C37: every packet in a sender's window whose sequence number is before the
\* expected_seqno of the peer's receiver half is one of the RUDP_WINDOW numbers
\* before it, and when such a packet reaches the receiver again it is answered
\* with its ACK and nothing else.
C37_WindowWithinRetroWindow ==
  [][\A h \in Hosts, p \in Hosts :
       /\ (HasSender(h, p)' /\ HasReceiver(p, h)') =>
            \A pk \in InWindow(SenderOf(h, p)'.sliding_window) :
              Lt32(pk.seqno, ReceiverOf(p, h)'.expected_seqno)
                => InRetroWindow(pk.seqno, ReceiverOf(p, h)'.expected_seqno)
       /\ ( /\ Received(last', RUDP_DATA) /\ last'.h = p /\ last'.peer = h
            /\ HasSender(h, p) /\ HasReceiver(p, h)
            /\ last'.pkt \in InWindow(SenderOf(h, p).sliding_window)
            /\ Lt32(last'.pkt.seqno, ReceiverOf(p, h).expected_seqno) )
          => /\ ~last'.died
             /\ last'.out = <<AckTo(h, Add32(last'.pkt.seqno, 1))>>
    ]_vars

\* the head of a full window is RUDP_WINDOW before the receiver's
\* expected_seqno, and its retransmitted copy was just acknowledged again
C37_Witness ==
  /\ HasSender(1, 2) /\ HasReceiver(2, 1)
  /\ FirstUnused(SenderOf(1, 2).sliding_window) = 0
  /\ SenderOf(1, 2).sliding_window[1].seqno
       = Sub32(ReceiverOf(2, 1).expected_seqno, RUDP_WINDOW)
  /\ Received(last, RUDP_DATA) /\ last.h = 2 /\ ~last.died
  /\ last.pkt = SenderOf(1, 2).sliding_window[1]
  /\ last.out = <<AckTo(1, Add32(last.pkt.seqno, 1))>>

\* the i-th datagram h submitted for p was handed to p's data handler
DeliveredItem(h, p, i) ==
  \E j \in 1..Len(delivered[p][h]) :
    delivered[p][h][j].payload = submitted[h][p][i].item

\* nothing is left that would make a handler of h run for peer p: no timer is
\* pending in h's reactor and no datagram is in flight between h and p
NothingPending(h, p) ==
  /\ timers[h] = {}
  /\ \A m \in net : {m.src, m.dst} # {h, p}

\* C38: a datagram for which rudp_sendto returned success and that was neither
\* handed to the peer's data handler nor followed by a TIMEOUT event for that
\* peer never sits in a live process with no timer pending and no datagram in
\* flight, which is a state it can never leave.
C38_NeverStranded ==
  \A h \in Hosts, p \in Hosts :
    \A i \in 1..Len(submitted[h][p]) :
      (~crashed[h] /\ ~DeliveredItem(h, p, i) /\ ~HasEvent(h, "TIMEOUT", p))
        => ~NothingPending(h, p)

\* what the session list shows of a session: the window, the queue, the retry
\* counters and the receiver's expected_seqno, read through the session struct
\* (nothing can be said of them once that struct was freed)
SessionView(s) ==
  IF s.freed THEN [freed |-> TRUE]
  ELSE [freed |-> FALSE,
        window |-> IF s.sender = NULL THEN NULL ELSE s.sender.sliding_window,
        queue |-> IF s.sender = NULL THEN NULL ELSE s.sender.data_queue,
        retries |-> IF s.sender = NULL THEN NULL
                    ELSE <<s.sender.retransmission_attempts,
                           s.sender.syn_retransmit_attempts,
                           s.sender.fin_retransmit_attempts>>,
        expected |-> IF s.receiver = NULL THEN NULL ELSE s.receiver.expected_seqno]

\* C39: a receive_callback step for a packet from peer P, or a timeout_callback
\* step for a packet to P, leaves the window, queue, retry counters and
\* expected_seqno of the session of every other peer Q of the socket as they
\* were, and hands the application no payload attributed to Q.
C39_SessionsIsolated ==
  [][\A h \in Hosts :
       (last'.h = h /\ last'.op \in {"receive", "timeout"}) =>
         \A j \in 1..Len(sessions[h]) :
           sessions[h][j].address # last'.peer =>
             /\ j <= Len(sessions'[h])
             /\ SessionView(sessions'[h][j]) = SessionView(sessions[h][j])
             /\ delivered'[h][sessions[h][j].address] = delivered[h][sessions[h][j].address]
    ]_vars

====
